---- MODULE Spec2Model ----
(***************************************************************************)
(* Karlik: the robot program model, the step-wise execution engine, the    *)
(* continuation stack and the robots collection (prog.c, rstack.c,         *)
(* robot.c, robots.c), as a state machine.                                 *)
(***************************************************************************)
EXTENDS Integers, Sequences, FiniteSets, TLC

VARIABLES
    map,      \* robots->map: tile at every <<x, y>> of the grid
    robots,   \* robots->robots: the unordered list, robot ids in list order
    dorder,   \* robots->dorder: the draw order, robot ids in list order
    rob,      \* robot id -> robot_t fields (NoRobot for an id not allocated)
    prog,     \* the program module: sequence of procedures
    last,     \* the last operation the host invoked and what it returned
    twin,     \* a second copy of the robots and the map, driven by the same
              \* calls one call behind (only where two copies are compared)
    file,     \* the saved file on disk: the items written to it
    learn_proc, \* vocabed->learn_proc: the procedure being learned, or NULL
    loads     \* the loaders that the last karlik_load called, in call order

vars == <<map, robots, dorder, rob, prog, last, twin, file, learn_proc, loads>>

(***************************************************************************)
(* Bounds of the model.                                                    *)
(***************************************************************************)
MapW == 2
MapH == 3
MaxRobots == 3
MaxMoved == 2
MaxTags == 2
MaxDepth == 2
MaxBody == 2
MaxSteps == 12
\* The letters an identifier is drawn from (26 in the source), and the
\* procedures a module grows to by learning.
NumLetters == 2
MaxProcs == 2

(***************************************************************************)
(* Program constants.                                                      *)
(***************************************************************************)
prog_proc_id_len == 8

dir_east == 0
dir_north == 1
dir_west == 2
dir_south == 3

mapt_none == 0
mapt_wall == 1
mapt_wtag == 2
mapt_gtag == 3
mapt_btag == 4
mapt_robot == 5

errt_none == 0
errt_hit_wall == 1
errt_already_tag == 2
errt_no_tag == 3
errt_limit == 4

progin_turn_left == 0
progin_move == 1
progin_put_white == 2
progin_put_grey == 3
progin_put_black == 4
progin_pick_up == 5

progst_intrinsic == 0
progst_call == 1
progst_if == 2
progst_repeat == 3
progst_recurse == 4

progct_wall == 0
progct_south == 8

\* Return codes (0 and the errno values the code returns).
EOK == "EOK"
EINVAL == "EINVAL"
EBUSY == "EBUSY"
EEXIST == "EEXIST"
ENOTSUP == "ENOTSUP"
EIO == "EIO"

(***************************************************************************)
(* adt/list.h: a list is the sequence of its members.                      *)
(***************************************************************************)
IndexOf(s, e) == CHOOSE i \in 1..Len(s) : s[i] = e

list_remove(s, e) == SelectSeq(s, LAMBDA m : m # e)

list_append(e, s) == Append(s, e)

list_prepend(e, s) == <<e>> \o s

\* Insert e immediately before member old of s.
list_insert_before(e, old, s) ==
    LET i == IndexOf(s, old)
    IN  SubSeq(s, 1, i - 1) \o <<e>> \o SubSeq(s, i, Len(s))

\* Insert e immediately after member old of s.
list_insert_after(e, old, s) ==
    LET i == IndexOf(s, old)
    IN  SubSeq(s, 1, i) \o <<e>> \o SubSeq(s, i + 1, Len(s))

\* NULL for a list position: 0 (robot ids and procedure indices start at 1).
NULL == 0

list_next(e, s) ==
    LET i == IndexOf(s, e) IN IF i < Len(s) THEN s[i + 1] ELSE NULL

list_prev(e, s) ==
    LET i == IndexOf(s, e) IN IF i > 1 THEN s[i - 1] ELSE NULL

list_first(s) == IF Len(s) = 0 THEN NULL ELSE s[1]

(***************************************************************************)
(* dir.c                                                                   *)
(***************************************************************************)
\* dir_next_ccw turning the other way.
dir_next_cw(cur) == IF cur > dir_east THEN cur - 1 ELSE dir_south

dir_next_ccw(cur) == IF cur < dir_south THEN cur + 1 ELSE dir_east

\* dir_get_off with the offsets of north and south exchanged.
dir_get_off_flipped(dir) ==
    CASE dir = dir_east -> <<1, 0>>
      [] dir = dir_north -> <<0, 1>>
      [] dir = dir_west -> <<-1, 0>>
      [] dir = dir_south -> <<0, -1>>
      [] OTHER -> <<0, 0>>

\* dir_get_off: <<xoff, yoff>>
dir_get_off(dir) ==
    CASE dir = dir_east -> <<1, 0>>
      [] dir = dir_north -> <<0, -1>>
      [] dir = dir_west -> <<-1, 0>>
      [] dir = dir_south -> <<0, 1>>
      [] OTHER -> <<0, 0>>

(***************************************************************************)
(* The map interface the robot consumes.                                   *)
(***************************************************************************)
\* map_t: width, height and the tile at every <<x, y>> inside them.
TilesOf(w, h) == (0..(w - 1)) \X (0..(h - 1))

map_create(w, h) ==
    [width |-> w, height |-> h, tile |-> [t \in TilesOf(w, h) |-> mapt_none]]

InMap(m, x, y) == x >= 0 /\ x < m.width /\ y >= 0 /\ y < m.height

\* A tile outside the map reads as a wall.
map_get(m, x, y) ==
    IF InMap(m, x, y) THEN m.tile[<<x, y>>] ELSE mapt_wall

map_set(m, x, y, t) ==
    IF InMap(m, x, y) THEN [m EXCEPT !.tile[<<x, y>>] = t] ELSE m

map_tile_walkable(t) == t # mapt_wall

map_tile_tag(t) == t \in {mapt_wtag, mapt_gtag, mapt_btag}

(***************************************************************************)
(* prog.c: the program model.  A statement pointer is the procedure's      *)
(* index in the module and the statement's position in the procedure's     *)
(* body (from 1); NoStmt is the NULL statement pointer.                    *)
(***************************************************************************)
Ident(c) == [i \in 1..prog_proc_id_len |-> c]

Block(s) == [null |-> FALSE, stmts |-> s]
NullBlock == [null |-> TRUE, stmts |-> <<>>]

Cond(n, ct) == [not |-> n, ctype |-> ct]

Intrinsic(it) == [stype |-> progst_intrinsic, itype |-> it]
Call(p) == [stype |-> progst_call, proc |-> p]
If(c, bt, bf) == [stype |-> progst_if, cond |-> c, btrue |-> bt, bfalse |-> bf]
Repeat(n, hs, sc, b, he, ec) ==
    [stype |-> progst_repeat, repcnt |-> n, have_scond |-> hs, scond |-> sc,
     body |-> b, have_econd |-> he, econd |-> ec]
Recurse == [stype |-> progst_recurse]

Proc(id, b) == [ident |-> id, body |-> Block(b)]

\* The NULL procedure pointer of a host that is not learning one.
NoProc == [ident |-> <<>>, body |-> NullBlock]

NoStmt == [proc |-> NULL, idx |-> 0]
StmtAt(p, i) == [proc |-> p, idx |-> i]

\* The statement a non-NULL statement pointer points at.
Deref(mod, s) == mod[s.proc].body.stmts[s.idx]

prog_block_first(mod, p) ==
    IF Len(mod[p].body.stmts) = 0 THEN NoStmt ELSE StmtAt(p, 1)

prog_block_next(mod, cur) ==
    IF cur.idx < Len(mod[cur.proc].body.stmts)
    THEN StmtAt(cur.proc, cur.idx + 1)
    ELSE NoStmt

(***************************************************************************)
(* rstack.c: the continuation stack, entries in list order (top last).     *)
(***************************************************************************)
rstack_create == <<>>

rstack_is_empty(rstack) == Len(rstack) = 0

rstack_push_caller(rstack, proc, stmt) ==
    list_append([caller_proc |-> proc, caller_stmt |-> stmt], rstack)

\* rstack_pop_caller: the last entry, and the stack without it.
rstack_last(rstack) == rstack[Len(rstack)]

rstack_pop_caller(rstack) == SubSeq(rstack, 1, Len(rstack) - 1)

(***************************************************************************)
(* robot.c, robots.c.  A world is the record <<map, robots, dorder, rob>>  *)
(* the operations read and change; every operation is an operator from a  *)
(* world to the world after it (and its return code where it has one).     *)
(***************************************************************************)
RobotIds == 1..MaxRobots

robot_create(x, y, dir, rstack) ==
    [x |-> x, y |-> y, dir |-> dir, cur_stmt |-> NoStmt, cur_proc |-> NULL,
     rstack |-> rstack, error |-> errt_none]

\* The record of an id that names no robot (not allocated, or destroyed).
NoRobot == robot_create(0, 0, dir_east, rstack_create)

World == [map |-> map, robots |-> robots, dorder |-> dorder, rob |-> rob]

robots_first(w) == list_first(w.robots)
robots_next(w, cur) == list_next(cur, w.robots)
robots_dorder_first(w) == list_first(w.dorder)
robots_dorder_next(w, cur) == list_next(cur, w.dorder)
robots_dorder_prev(w, cur) == list_prev(cur, w.dorder)

RECURSIVE GetScan(_, _, _, _)
GetScan(w, robot, x, y) ==
    IF robot = NULL THEN NULL
    ELSE IF w.rob[robot].x = x /\ w.rob[robot].y = y THEN robot
    ELSE GetScan(w, robots_next(w, robot), x, y)

robots_get(w, x, y) == GetScan(w, robots_first(w), x, y)

\* robots_add_robot's loop passing the entries whose y equals y as well.
RECURSIVE AddScanPastEqual(_, _, _)
AddScanPastEqual(w, oldr, y) ==
    IF oldr # NULL /\ w.rob[oldr].y <= y
    THEN AddScanPastEqual(w, robots_dorder_next(w, oldr), y)
    ELSE oldr

\* robots_add_robot's loop: the first entry of the draw order, from oldr on,
\* whose y is not less than y.
RECURSIVE AddScan(_, _, _)
AddScan(w, oldr, y) ==
    IF oldr # NULL /\ w.rob[oldr].y < y
    THEN AddScan(w, robots_dorder_next(w, oldr), y)
    ELSE oldr

\* robots_add_robot: w.rob[robot] already holds the new robot's fields.
robots_add_robot(w, robot) ==
    LET oldr == AddScan(w, robots_dorder_first(w), w.rob[robot].y)
    IN  [w EXCEPT !.robots = list_append(robot, w.robots),
                  !.dorder = IF oldr # NULL
                             THEN list_insert_before(robot, oldr, w.dorder)
                             ELSE list_append(robot, w.dorder)]

\* The robot_t a new robot gets: the least id naming no robot.
NewRobot(w) == CHOOSE id \in RobotIds :
    /\ \A k \in 1..Len(w.robots) : w.robots[k] # id
    /\ \A j \in RobotIds : j < id => \E k \in 1..Len(w.robots) : w.robots[k] = j

\* robots_add without the test for a robot already on the tile.
robots_add_over(w, x, y) ==
    LET robot == NewRobot(w)
        w1 == [w EXCEPT !.rob[robot] =
                   robot_create(x, y, dir_south, rstack_create)]
    IN  [w |-> robots_add_robot(w1, robot), rc |-> EOK]

robots_add(w, x, y) ==
    IF robots_get(w, x, y) # NULL
    THEN [w |-> w, rc |-> EEXIST]
    ELSE LET robot == NewRobot(w)
             w1 == [w EXCEPT !.rob[robot] =
                        robot_create(x, y, dir_south, rstack_create)]
         IN  [w |-> robots_add_robot(w1, robot), rc |-> EOK]

\* robots_remove without the list_remove of the draw-order link.
robots_remove_unlinked(w, x, y) ==
    LET oldr == robots_get(w, x, y)
    IN  IF oldr = NULL THEN w
        ELSE [w EXCEPT !.robots = list_remove(w.robots, oldr),
                       !.rob[oldr] = NoRobot]

robots_remove(w, x, y) ==
    LET oldr == robots_get(w, x, y)
    IN  IF oldr = NULL THEN w
        ELSE [w EXCEPT !.robots = list_remove(w.robots, oldr),
                       !.dorder = list_remove(w.dorder, oldr),
                       !.rob[oldr] = NoRobot]

\* robots_move_robot's backward loop (dy < 0).
RECURSIVE MoveScanPrev(_, _, _)
MoveScanPrev(w, next, newy) ==
    IF next # NULL /\ newy < w.rob[next].y
    THEN MoveScanPrev(w, robots_dorder_prev(w, next), newy)
    ELSE next

\* robots_move_robot's forward loop (dy >= 0).
RECURSIVE MoveScanNext(_, _, _)
MoveScanNext(w, next, newy) ==
    IF next # NULL /\ newy > w.rob[next].y
    THEN MoveScanNext(w, robots_dorder_next(w, next), newy)
    ELSE next

\* robots_move_robot that unlinks the robot from the draw order and does not
\* link it again.
robots_move_robot_unlinked(w, robot, dx, dy) ==
    [w EXCEPT !.dorder = list_remove(w.dorder, robot),
              !.rob[robot].x = @ + dx,
              !.rob[robot].y = @ + dy]

robots_move_robot(w, robot, dx, dy) ==
    LET newy == w.rob[robot].y + dy
        next == IF dy < 0
                THEN MoveScanPrev(w, robots_dorder_prev(w, robot), newy)
                ELSE MoveScanNext(w, robots_dorder_next(w, robot), newy)
        removed == list_remove(w.dorder, robot)
        placed == IF dy < 0
                  THEN IF next # NULL
                       THEN list_insert_before(robot, next, removed)
                       ELSE list_prepend(robot, removed)
                  ELSE IF next # NULL
                       THEN list_insert_after(robot, next, removed)
                       ELSE list_append(robot, removed)
    IN  [w EXCEPT !.dorder = placed,
                  !.rob[robot].x = @ + dx,
                  !.rob[robot].y = @ + dy]

robot_turn_left(w, robot) ==
    [w EXCEPT !.rob[robot].dir = dir_next_ccw(@)]

\* robot_move that reports hit-wall and goes on to the tile all the same.
robot_move_on_wall(w, robot) ==
    LET off == dir_get_off(w.rob[robot].dir)
        tile == map_get(w.map, w.rob[robot].x + off[1], w.rob[robot].y + off[2])
    IN  IF ~map_tile_walkable(tile)
        THEN robots_move_robot([w EXCEPT !.rob[robot].error = errt_hit_wall],
                               robot, off[1], off[2])
        ELSE robots_move_robot(w, robot, off[1], off[2])

robot_move(w, robot) ==
    LET off == dir_get_off(w.rob[robot].dir)
        tile == map_get(w.map, w.rob[robot].x + off[1], w.rob[robot].y + off[2])
    IN  IF ~map_tile_walkable(tile)
        THEN [w EXCEPT !.rob[robot].error = errt_hit_wall]
        ELSE robots_move_robot(w, robot, off[1], off[2])

\* robot_put_white, robot_put_grey, robot_put_black: the same code with
\* tag = mapt_wtag, mapt_gtag, mapt_btag.
robot_put(w, robot, tag) ==
    LET tile == map_get(w.map, w.rob[robot].x, w.rob[robot].y)
    IN  IF tile # mapt_none
        THEN [w EXCEPT !.rob[robot].error = errt_already_tag]
        ELSE [w EXCEPT !.map = map_set(w.map, w.rob[robot].x, w.rob[robot].y, tag)]

\* robot_put_grey laying the black tag.
robot_put_grey_black(w, robot) == robot_put(w, robot, mapt_btag)

robot_put_white(w, robot) == robot_put(w, robot, mapt_wtag)
robot_put_grey(w, robot) == robot_put(w, robot, mapt_gtag)
robot_put_black(w, robot) == robot_put(w, robot, mapt_btag)

\* robot_pick_up without the test of the tile under the robot.
robot_pick_up_any(w, robot) ==
    [w EXCEPT !.map = map_set(w.map, w.rob[robot].x, w.rob[robot].y,
                              mapt_none)]

robot_pick_up(w, robot) ==
    LET tile == map_get(w.map, w.rob[robot].x, w.rob[robot].y)
    IN  IF ~map_tile_tag(tile)
        THEN [w EXCEPT !.rob[robot].error = errt_no_tag]
        ELSE [w EXCEPT !.map = map_set(w.map, w.rob[robot].x, w.rob[robot].y,
                                       mapt_none)]

\* robot_run_proc without the test of robot->error.
robot_run_proc_on_error(mod, w, robot, proc) ==
    IF w.rob[robot].cur_stmt # NoStmt
    THEN [w |-> w, rc |-> EBUSY]
    ELSE [w |-> [w EXCEPT !.rob[robot].cur_proc = proc,
                          !.rob[robot].cur_stmt = prog_block_first(mod, proc)],
          rc |-> EOK]

robot_run_proc(mod, w, robot, proc) ==
    IF w.rob[robot].cur_stmt # NoStmt \/ w.rob[robot].error # errt_none
    THEN [w |-> w, rc |-> EBUSY]
    ELSE [w |-> [w EXCEPT !.rob[robot].cur_proc = proc,
                          !.rob[robot].cur_stmt = prog_block_first(mod, proc)],
          rc |-> EOK]

robot_is_busy(w, robot) == w.rob[robot].cur_stmt # NoStmt

robot_error(w, robot) == w.rob[robot].error

\* robot_reset that drops the cursor and keeps the error.
robot_reset_keep_error(w, robot) ==
    [w EXCEPT !.rob[robot].cur_stmt = NoStmt]

\* robot_reset that resets every robot of the collection.
robot_reset_all(w, robot) ==
    [w EXCEPT !.rob = [id \in RobotIds |->
                          [w.rob[id] EXCEPT !.error = errt_none,
                                            !.cur_stmt = NoStmt]]]

robot_reset(w, robot) ==
    [w EXCEPT !.rob[robot].error = errt_none,
              !.rob[robot].cur_stmt = NoStmt]

\* robot_leave that never pops the continuation stack.
robot_leave_no_pop(w, robot) ==
    [w EXCEPT !.rob[robot].cur_proc = NULL,
              !.rob[robot].cur_stmt = NoStmt]

robot_leave(w, robot) ==
    IF rstack_is_empty(w.rob[robot].rstack)
    THEN [w EXCEPT !.rob[robot].cur_proc = NULL,
                   !.rob[robot].cur_stmt = NoStmt]
    ELSE LET entry == rstack_last(w.rob[robot].rstack)
         IN  [w EXCEPT !.rob[robot].rstack = rstack_pop_caller(@),
                       !.rob[robot].cur_proc = entry.caller_proc,
                       !.rob[robot].cur_stmt = entry.caller_stmt]

\* robot_stmt_intrinsic that advances the cursor even when the intrinsic
\* has set the error.
robot_stmt_intrinsic_skip(mod, w, robot) ==
    LET itype == Deref(mod, w.rob[robot].cur_stmt).itype
        w1 == CASE itype = progin_turn_left -> robot_turn_left(w, robot)
                [] itype = progin_move -> robot_move(w, robot)
                [] itype = progin_put_white -> robot_put_white(w, robot)
                [] itype = progin_put_grey -> robot_put_grey(w, robot)
                [] itype = progin_put_black -> robot_put_black(w, robot)
                [] itype = progin_pick_up -> robot_pick_up(w, robot)
                [] OTHER -> w
        snext == prog_block_next(mod, w1.rob[robot].cur_stmt)
    IN  IF snext = NoStmt
        THEN robot_leave([w1 EXCEPT !.rob[robot].cur_stmt = NoStmt], robot)
        ELSE [w1 EXCEPT !.rob[robot].cur_stmt = snext]

robot_stmt_intrinsic(mod, w, robot) ==
    LET itype == Deref(mod, w.rob[robot].cur_stmt).itype
        w1 == CASE itype = progin_turn_left -> robot_turn_left(w, robot)
                [] itype = progin_move -> robot_move(w, robot)
                [] itype = progin_put_white -> robot_put_white(w, robot)
                [] itype = progin_put_grey -> robot_put_grey(w, robot)
                [] itype = progin_put_black -> robot_put_black(w, robot)
                [] itype = progin_pick_up -> robot_pick_up(w, robot)
                [] OTHER -> w
        snext == prog_block_next(mod, w1.rob[robot].cur_stmt)
    IN  IF w1.rob[robot].error # errt_none THEN w1
        ELSE IF snext = NoStmt
             THEN robot_leave([w1 EXCEPT !.rob[robot].cur_stmt = NoStmt], robot)
             ELSE [w1 EXCEPT !.rob[robot].cur_stmt = snext]

\* robot_stmt_call that turns the robot as it enters the callee.
robot_stmt_call_turn(mod, w, robot) ==
    LET scall == w.rob[robot].cur_stmt
        snext == prog_block_next(mod, scall)
        w1 == IF snext = NoStmt THEN w
              ELSE [w EXCEPT !.rob[robot].rstack =
                        rstack_push_caller(@, w.rob[robot].cur_proc, snext)]
        callee == Deref(mod, scall).proc
    IN  [w1 EXCEPT !.rob[robot].cur_proc = callee,
                   !.rob[robot].cur_stmt = prog_block_first(mod, callee),
                   !.rob[robot].dir = dir_next_ccw(@)]

\* robot_stmt_call that pushes a continuation for a tail call as well.
robot_stmt_call_push_always(mod, w, robot) ==
    LET scall == w.rob[robot].cur_stmt
        snext == prog_block_next(mod, scall)
        w1 == [w EXCEPT !.rob[robot].rstack =
                  rstack_push_caller(@, w.rob[robot].cur_proc, snext)]
        callee == Deref(mod, scall).proc
    IN  [w1 EXCEPT !.rob[robot].cur_proc = callee,
                   !.rob[robot].cur_stmt = prog_block_first(mod, callee)]

\* robot_stmt_call that pushes the Call statement itself, not its sibling.
robot_stmt_call_push_self(mod, w, robot) ==
    LET scall == w.rob[robot].cur_stmt
        snext == prog_block_next(mod, scall)
        w1 == IF snext = NoStmt THEN w
              ELSE [w EXCEPT !.rob[robot].rstack =
                        rstack_push_caller(@, w.rob[robot].cur_proc, scall)]
        callee == Deref(mod, scall).proc
    IN  [w1 EXCEPT !.rob[robot].cur_proc = callee,
                   !.rob[robot].cur_stmt = prog_block_first(mod, callee)]

\* robot_stmt_call that records the callee as the procedure to return to.
robot_stmt_call_push_callee(mod, w, robot) ==
    LET scall == w.rob[robot].cur_stmt
        snext == prog_block_next(mod, scall)
        callee == Deref(mod, scall).proc
        w1 == IF snext = NoStmt THEN w
              ELSE [w EXCEPT !.rob[robot].rstack =
                        rstack_push_caller(@, callee, snext)]
    IN  [w1 EXCEPT !.rob[robot].cur_proc = callee,
                   !.rob[robot].cur_stmt = prog_block_first(mod, callee)]

robot_stmt_call(mod, w, robot) ==
    LET scall == w.rob[robot].cur_stmt
        snext == prog_block_next(mod, scall)
        w1 == IF snext = NoStmt THEN w
              ELSE [w EXCEPT !.rob[robot].rstack =
                        rstack_push_caller(@, w.rob[robot].cur_proc, snext)]
        callee == Deref(mod, scall).proc
    IN  [w1 EXCEPT !.rob[robot].cur_proc = callee,
                   !.rob[robot].cur_stmt = prog_block_first(mod, callee)]

\* robot_step that leaves a statement it does not support behind.
robot_step_skip(mod, w, robot) ==
    IF w.rob[robot].cur_stmt = NoStmt THEN [w |-> w, rc |-> EINVAL]
    ELSE IF w.rob[robot].error # errt_none THEN [w |-> w, rc |-> EINVAL]
    ELSE LET stype == Deref(mod, w.rob[robot].cur_stmt).stype
         IN  CASE stype = progst_intrinsic ->
                    [w |-> robot_stmt_intrinsic(mod, w, robot), rc |-> EOK]
               [] stype = progst_call ->
                    [w |-> robot_stmt_call(mod, w, robot), rc |-> EOK]
               [] OTHER ->
                    [w |-> [w EXCEPT !.rob[robot].cur_stmt =
                                prog_block_next(mod, w.rob[robot].cur_stmt)],
                     rc |-> ENOTSUP]

\* robot_step that reports success when there is no statement to execute.
robot_step_no_cursor(mod, w, robot) ==
    IF w.rob[robot].cur_stmt = NoStmt THEN [w |-> w, rc |-> EOK]
    ELSE IF w.rob[robot].error # errt_none THEN [w |-> w, rc |-> EINVAL]
    ELSE LET stype == Deref(mod, w.rob[robot].cur_stmt).stype
         IN  CASE stype = progst_intrinsic ->
                    [w |-> robot_stmt_intrinsic(mod, w, robot), rc |-> EOK]
               [] stype = progst_call ->
                    [w |-> robot_stmt_call(mod, w, robot), rc |-> EOK]
               [] OTHER -> [w |-> w, rc |-> ENOTSUP]

\* robot_step without the test of robot->error.
robot_step_on_error(mod, w, robot) ==
    IF w.rob[robot].cur_stmt = NoStmt THEN [w |-> w, rc |-> EINVAL]
    ELSE LET stype == Deref(mod, w.rob[robot].cur_stmt).stype
         IN  CASE stype = progst_intrinsic ->
                    [w |-> robot_stmt_intrinsic(mod, w, robot), rc |-> EOK]
               [] stype = progst_call ->
                    [w |-> robot_stmt_call(mod, w, robot), rc |-> EOK]
               [] OTHER -> [w |-> w, rc |-> ENOTSUP]

\* robot_step that refuses the call that follows a robot_step.
robot_step_not_twice(mod, w, robot) ==
    IF last.op = "step" THEN [w |-> w, rc |-> EINVAL]
    ELSE IF w.rob[robot].cur_stmt = NoStmt THEN [w |-> w, rc |-> EINVAL]
    ELSE IF w.rob[robot].error # errt_none THEN [w |-> w, rc |-> EINVAL]
    ELSE LET stype == Deref(mod, w.rob[robot].cur_stmt).stype
         IN  CASE stype = progst_intrinsic ->
                    [w |-> robot_stmt_intrinsic(mod, w, robot), rc |-> EOK]
               [] stype = progst_call ->
                    [w |-> robot_stmt_call(mod, w, robot), rc |-> EOK]
               [] OTHER -> [w |-> w, rc |-> ENOTSUP]

robot_step(mod, w, robot) ==
    IF w.rob[robot].cur_stmt = NoStmt THEN [w |-> w, rc |-> EINVAL]
    ELSE IF w.rob[robot].error # errt_none THEN [w |-> w, rc |-> EINVAL]
    ELSE LET stype == Deref(mod, w.rob[robot].cur_stmt).stype
         IN  CASE stype = progst_intrinsic ->
                    [w |-> robot_stmt_intrinsic(mod, w, robot), rc |-> EOK]
               [] stype = progst_call ->
                    [w |-> robot_stmt_call(mod, w, robot), rc |-> EOK]
               [] OTHER -> [w |-> w, rc |-> ENOTSUP]

(***************************************************************************)
(* The saved file: the sequence of the items fprintf wrote and fscanf      *)
(* reads back.  An item is an unsigned number, an identifier line, or the  *)
(* letter R.  A loader is an operator from (file, position) to its return  *)
(* code, the position after what it consumed and the value it built.       *)
(***************************************************************************)
FNum(n) == [k |-> "u", n |-> n, s |-> <<>>]
FIdent(id) == [k |-> "s", n |-> 0, s |-> id]
FLetterR == [k |-> "R", n |-> 0, s |-> <<>>]

\* fscanf of one "%u": whether an unsigned number is next.
ScanNum(f, pos) == pos <= Len(f) /\ f[pos].k = "u"

\* F applied to the value v: what the C code does with a call's result once
\* it holds it in a local variable.
With(v, F(_)) == CHOOSE out \in {F(x) : x \in {v}} : TRUE

\* A return code that is none: the call ran into undefined behaviour.  The
\* outcomes of it on the builds there are: the process is killed on the read
\* through NULL, or the read gives a NULL link and the walk ends as on the
\* last statement.
UNDEFINED == "UNDEFINED"
SIGSEGV == "SIGSEGV"
UndefinedOutcomes == {SIGSEGV, EIO}

\* What a loader returns: its return code, the position after what it read,
\* the value it hands to its caller, and leak, the number of objects that
\* the call allocated and that are, at its return, neither freed nor handed
\* to the caller.
Loaded(pos, val) == [rc |-> EOK, pos |-> pos, val |-> val, leak |-> 0]
Failed(rc, pos) == [rc |-> rc, pos |-> pos, val |-> NULL, leak |-> 0]

\* The failed return res, with n more objects left allocated.
Leaking(res, n) == [res EXCEPT !.leak = @ + n]

(***************************************************************************)
(* prog.c: saving and loading a module.                                    *)
(***************************************************************************)
\* The first procedure of mod with this identifier, NULL if there is none.
prog_module_proc_by_ident(mod, ident) ==
    IF \E i \in 1..Len(mod) : mod[i].ident = ident
    THEN CHOOSE i \in 1..Len(mod) :
             /\ mod[i].ident = ident
             /\ \A j \in 1..(i - 1) : mod[j].ident # ident
    ELSE NULL

\* Reads prog_proc_id_len characters, then expects the end of the line.
prog_proc_load_ident(f, pos) ==
    IF pos <= Len(f) /\ f[pos].k = "s" /\ Len(f[pos].s) = prog_proc_id_len
    THEN Loaded(pos + 1, f[pos].s)
    ELSE Failed(EIO, pos)

prog_proc_save_ident(ident) == <<FIdent(ident)>>

\* The linear index (from 0) of a statement of procedure proc's body.
prog_proc_get_stmt_index(mod, proc, stmt) == stmt.idx - 1

\* The statement of proc's body with linear index index (from 0); NULL when
\* index is the number of statements (the walk ends on NULL).  A greater
\* index makes the walk call prog_block_next(NULL), which reads through the
\* NULL pointer: what comes back, if anything, is not defined.
WildStmt == [proc |-> NULL, idx |-> -1]

prog_proc_stmt_by_index(mod, proc, index) ==
    IF index < Len(mod[proc].body.stmts) THEN StmtAt(proc, index + 1)
    ELSE IF index = Len(mod[proc].body.stmts) THEN NoStmt
    ELSE WildStmt

prog_cond_load(f, pos) ==
    IF ~(ScanNum(f, pos) /\ ScanNum(f, pos + 1)) THEN Failed(EIO, pos)
    ELSE IF f[pos + 1].n > progct_south THEN Failed(EIO, pos)
    ELSE Loaded(pos + 2, Cond(f[pos].n # 0, f[pos + 1].n))

prog_cond_save(cond) ==
    <<FNum(IF cond.not THEN 1 ELSE 0), FNum(cond.ctype)>>

prog_stmt_intrinsic_load(f, pos) ==
    IF ~ScanNum(f, pos) THEN Failed(EIO, pos)
    ELSE IF f[pos].n > progin_pick_up THEN Failed(EIO, pos)
    ELSE Loaded(pos + 1, Intrinsic(f[pos].n))

prog_stmt_intrinsic_save(stmt) == <<FNum(stmt.itype)>>

\* The callee is looked up in mod, the module loaded so far.
\* prog_stmt_call_load that takes the first procedure for an identifier it
\* does not find.
prog_stmt_call_load_any(mod, f, pos) ==
    With(prog_proc_load_ident(f, pos), LAMBDA id :
        IF id.rc # EOK THEN id
        ELSE With(prog_module_proc_by_ident(mod, id.val), LAMBDA proc :
                 IF proc = NULL THEN Loaded(id.pos, Call(1))
                 ELSE Loaded(id.pos, Call(proc))))

prog_stmt_call_load(mod, f, pos) ==
    With(prog_proc_load_ident(f, pos), LAMBDA id :
        IF id.rc # EOK THEN id
        ELSE With(prog_module_proc_by_ident(mod, id.val), LAMBDA proc :
                 IF proc = NULL THEN Failed(EIO, id.pos)
                 ELSE Loaded(id.pos, Call(proc))))

prog_stmt_call_save(mod, stmt) == prog_proc_save_ident(mod[stmt.proc].ident)

prog_stmt_recurse_load(f, pos) ==
    IF pos <= Len(f) /\ f[pos].k = "R" THEN Loaded(pos + 1, Recurse)
    ELSE Failed(EIO, pos)

prog_stmt_recurse_save(stmt) == <<FLetterR>>

\* The number of objects (statements and blocks) that a statement, a block
\* or a procedure is made of: one calloc for each.
RECURSIVE StmtObjects(_)
RECURSIVE BlockObjects(_)
RECURSIVE BlockStmtsObjects(_, _)
BlockStmtsObjects(stmts, i) ==
    IF i > Len(stmts) THEN 0
    ELSE StmtObjects(stmts[i]) + BlockStmtsObjects(stmts, i + 1)

BlockObjects(block) ==
    IF block.null THEN 0 ELSE 1 + BlockStmtsObjects(block.stmts, 1)

StmtObjects(stmt) ==
    1 + (IF stmt.stype = progst_if
         THEN BlockObjects(stmt.btrue) + BlockObjects(stmt.bfalse)
         ELSE IF stmt.stype = progst_repeat THEN BlockObjects(stmt.body)
         ELSE 0)

\* The destroy functions, as the number of objects of their argument that
\* are still allocated when they return.  prog_stmt_destroy frees the
\* statement alone, prog_block_destroy its statements and the block,
\* prog_proc_destroy the body and the procedure, prog_module_destroy the
\* procedures and not the module.
prog_stmt_destroy(stmt) == StmtObjects(stmt) - 1

prog_block_destroy(block) ==
    IF block.null THEN 0
    ELSE BlockStmtsObjects(block.stmts, 1) - Len(block.stmts)

prog_proc_destroy(proc) == prog_block_destroy(proc.body)

RECURSIVE ModuleProcsLeft(_, _)
ModuleProcsLeft(mod, i) ==
    IF i > Len(mod) THEN 0
    ELSE prog_proc_destroy(mod[i]) + ModuleProcsLeft(mod, i + 1)

prog_module_destroy(mod) == 1 + ModuleProcsLeft(mod, 1)

\* The condition a statement made by calloc holds before one is loaded.
ZeroCond == Cond(FALSE, progct_wall)

RECURSIVE prog_block_load(_, _, _)
RECURSIVE BlockLoadStmts(_, _, _, _, _)
RECURSIVE prog_stmt_load(_, _, _)
RECURSIVE prog_stmt_if_load(_, _, _)
RECURSIVE prog_stmt_repeat_load(_, _, _)

\* prog_block_load's loop: cnt more statements appended to stmts.
BlockLoadStmts(mod, f, pos, cnt, stmts) ==
    IF cnt = 0 THEN Loaded(pos, Block(stmts))
    ELSE With(prog_stmt_load(mod, f, pos), LAMBDA st :
             IF st.rc # EOK
             THEN Leaking(st, prog_block_destroy(Block(stmts)))
             ELSE BlockLoadStmts(mod, f, st.pos, cnt - 1,
                                 Append(stmts, st.val)))

prog_block_load(mod, f, pos) ==
    IF ~ScanNum(f, pos) THEN Failed(EIO, pos)
    ELSE BlockLoadStmts(mod, f, pos + 1, f[pos].n, <<>>)

prog_stmt_if_load(mod, f, pos) ==
    With(prog_cond_load(f, pos), LAMBDA cond :
        IF cond.rc # EOK THEN cond
        ELSE With(prog_block_load(mod, f, cond.pos), LAMBDA btrue :
            IF btrue.rc # EOK THEN btrue
            ELSE IF ~ScanNum(f, btrue.pos)
            THEN Leaking(Failed(EIO, btrue.pos),
                         StmtObjects(If(cond.val, btrue.val, NullBlock)))
            ELSE IF f[btrue.pos].n = 0
            THEN Loaded(btrue.pos + 1, If(cond.val, btrue.val, NullBlock))
            ELSE With(prog_block_load(mod, f, btrue.pos + 1), LAMBDA bfalse :
                IF bfalse.rc # EOK
                THEN Leaking(bfalse, prog_stmt_destroy(
                                 If(cond.val, btrue.val, NullBlock)))
                ELSE Loaded(bfalse.pos,
                            If(cond.val, btrue.val, bfalse.val)))))

\* The repeat count is read and not stored: the statement keeps calloc's 0.
\* The returns after a failed fscanf do not pass by prog_stmt_destroy.
prog_stmt_repeat_load(mod, f, pos) ==
    IF ~(ScanNum(f, pos) /\ ScanNum(f, pos + 1))
    THEN Leaking(Failed(EIO, pos), 1)
    ELSE With(IF f[pos + 1].n # 0 THEN prog_cond_load(f, pos + 2)
              ELSE Loaded(pos + 2, ZeroCond), LAMBDA scond :
        IF scond.rc # EOK THEN scond
        ELSE With(prog_block_load(mod, f, scond.pos), LAMBDA body :
            IF body.rc # EOK THEN body
            ELSE IF ~ScanNum(f, body.pos)
            THEN Leaking(Failed(EIO, body.pos), 1 + BlockObjects(body.val))
            ELSE With(IF f[body.pos].n # 0
                      THEN prog_cond_load(f, body.pos + 1)
                      ELSE Loaded(body.pos + 1, ZeroCond), LAMBDA econd :
                IF econd.rc # EOK
                THEN Leaking(econd, BlockObjects(body.val))
                ELSE Loaded(econd.pos,
                            Repeat(0, f[pos + 1].n # 0, scond.val, body.val,
                                   f[body.pos].n # 0, econd.val)))))

prog_stmt_load(mod, f, pos) ==
    IF ~ScanNum(f, pos) THEN Failed(EIO, pos)
    ELSE LET stype == f[pos].n
         IN  IF stype > progst_recurse THEN Failed(EIO, pos)
             ELSE CASE stype = progst_intrinsic ->
                           prog_stmt_intrinsic_load(f, pos + 1)
                    [] stype = progst_call ->
                           prog_stmt_call_load(mod, f, pos + 1)
                    [] stype = progst_if ->
                           prog_stmt_if_load(mod, f, pos + 1)
                    [] stype = progst_repeat ->
                           prog_stmt_repeat_load(mod, f, pos + 1)
                    [] stype = progst_recurse ->
                           prog_stmt_recurse_load(f, pos + 1)

RECURSIVE prog_block_save(_, _)
RECURSIVE BlockSaveStmts(_, _, _)
RECURSIVE prog_stmt_save(_, _)
RECURSIVE prog_stmt_if_save(_, _)
RECURSIVE prog_stmt_repeat_save(_, _)

\* prog_block_save's loop: the statements from the i-th on.
BlockSaveStmts(mod, stmts, i) ==
    IF i > Len(stmts) THEN <<>>
    ELSE prog_stmt_save(mod, stmts[i]) \o BlockSaveStmts(mod, stmts, i + 1)

prog_block_save(mod, block) ==
    <<FNum(Len(block.stmts))>> \o BlockSaveStmts(mod, block.stmts, 1)

prog_stmt_if_save(mod, stmt) ==
    prog_cond_save(stmt.cond) \o prog_block_save(mod, stmt.btrue)
        \o <<FNum(IF ~stmt.bfalse.null THEN 1 ELSE 0)>>
        \o (IF ~stmt.bfalse.null THEN prog_block_save(mod, stmt.bfalse)
            ELSE <<>>)

prog_stmt_repeat_save(mod, stmt) ==
    <<FNum(stmt.repcnt), FNum(IF stmt.have_scond THEN 1 ELSE 0)>>
        \o (IF stmt.have_scond THEN prog_cond_save(stmt.scond) ELSE <<>>)
        \o prog_block_save(mod, stmt.body)
        \o <<FNum(IF stmt.have_econd THEN 1 ELSE 0)>>
        \o (IF stmt.have_econd THEN prog_cond_save(stmt.econd) ELSE <<>>)

prog_stmt_save(mod, stmt) ==
    <<FNum(stmt.stype)>> \o
        CASE stmt.stype = progst_intrinsic -> prog_stmt_intrinsic_save(stmt)
          [] stmt.stype = progst_call -> prog_stmt_call_save(mod, stmt)
          [] stmt.stype = progst_if -> prog_stmt_if_save(mod, stmt)
          [] stmt.stype = progst_repeat -> prog_stmt_repeat_save(mod, stmt)
          [] stmt.stype = progst_recurse -> prog_stmt_recurse_save(stmt)

\* The procedure is loaded against mod, the procedures loaded before it.
prog_proc_load(mod, f, pos) ==
    With(prog_proc_load_ident(f, pos), LAMBDA id :
        IF id.rc # EOK THEN id
        ELSE With(prog_block_load(mod, f, id.pos), LAMBDA body :
                 IF body.rc # EOK THEN body
                 ELSE Loaded(body.pos,
                             [ident |-> id.val, body |-> body.val])))

prog_proc_save(mod, proc) ==
    prog_proc_save_ident(proc.ident) \o prog_block_save(mod, proc.body)

prog_module_create == <<>>

prog_module_append(mod, proc) == list_append(proc, mod)

\* prog_module_load's loop: cnt more procedures appended to mod.
RECURSIVE ModuleLoadProcs(_, _, _, _)
ModuleLoadProcs(mod, f, pos, cnt) ==
    IF cnt = 0 THEN Loaded(pos, mod)
    ELSE With(prog_proc_load(mod, f, pos), LAMBDA proc :
             IF proc.rc # EOK THEN Leaking(proc, prog_module_destroy(mod))
             ELSE ModuleLoadProcs(prog_module_append(mod, proc.val), f,
                                  proc.pos, cnt - 1))

prog_module_load(f, pos) ==
    IF ~ScanNum(f, pos)
    THEN Leaking(Failed(EIO, pos), prog_module_destroy(prog_module_create))
    ELSE ModuleLoadProcs(prog_module_create, f, pos + 1, f[pos].n)

\* prog_module_save's loop: the procedures from the i-th on.
RECURSIVE ModuleSaveProcs(_, _)
ModuleSaveProcs(mod, i) ==
    IF i > Len(mod) THEN <<>>
    ELSE prog_proc_save(mod, mod[i]) \o ModuleSaveProcs(mod, i + 1)

prog_module_save(mod) == <<FNum(Len(mod))>> \o ModuleSaveProcs(mod, 1)

(***************************************************************************)
(* rstack.c, robot.c, robots.c: saving and loading the robots.             *)
(***************************************************************************)
rstack_entry_load(mod, f, pos, rstack) ==
    With(prog_proc_load_ident(f, pos), LAMBDA id :
        IF id.rc # EOK THEN id
        ELSE IF ~ScanNum(f, id.pos) THEN Failed(EIO, id.pos)
        ELSE With(prog_module_proc_by_ident(mod, id.val), LAMBDA proc :
            IF proc = NULL THEN Failed(EIO, id.pos + 1)
            ELSE With(prog_proc_stmt_by_index(mod, proc, f[id.pos].n),
                      LAMBDA stmt :
                IF stmt = WildStmt THEN Failed(UNDEFINED, id.pos + 1)
                ELSE IF stmt = NoStmt THEN Failed(EIO, id.pos + 1)
                ELSE Loaded(id.pos + 1,
                            rstack_push_caller(rstack, proc, stmt)))))

\* rstack_entry_save that counts the statements from one.
rstack_entry_save_from_one(mod, entry) ==
    prog_proc_save_ident(mod[entry.caller_proc].ident)
        \o <<FNum(prog_proc_get_stmt_index(mod, entry.caller_proc,
                                           entry.caller_stmt) + 1)>>

rstack_entry_save(mod, entry) ==
    prog_proc_save_ident(mod[entry.caller_proc].ident)
        \o <<FNum(prog_proc_get_stmt_index(mod, entry.caller_proc,
                                           entry.caller_stmt))>>

\* rstack_load's loop: nentries more entries pushed on rstack.
RECURSIVE RstackLoadEntries(_, _, _, _, _)
RstackLoadEntries(mod, f, pos, nentries, rstack) ==
    IF nentries = 0 THEN Loaded(pos, rstack)
    ELSE With(rstack_entry_load(mod, f, pos, rstack), LAMBDA e :
             IF e.rc # EOK THEN e
             ELSE RstackLoadEntries(mod, f, e.pos, nentries - 1, e.val))

rstack_load(mod, f, pos) ==
    IF ~ScanNum(f, pos) THEN Failed(EIO, pos)
    ELSE RstackLoadEntries(mod, f, pos + 1, f[pos].n, rstack_create)

\* rstack_save's loop: the entries from the i-th on.
RECURSIVE RstackSaveEntries(_, _, _)
RstackSaveEntries(mod, rstack, i) ==
    IF i > Len(rstack) THEN <<>>
    ELSE rstack_entry_save(mod, rstack[i])
             \o RstackSaveEntries(mod, rstack, i + 1)

rstack_save(mod, rstack) ==
    <<FNum(Len(rstack))>> \o RstackSaveEntries(mod, rstack, 1)

\* The loaded robot has no cursor and no current procedure: the file holds
\* neither.
robot_load(mod, f, pos) ==
    IF ~(\A i \in 0..3 : ScanNum(f, pos + i)) THEN Failed(EIO, pos)
    ELSE LET x == f[pos].n
             y == f[pos + 1].n
             dir == f[pos + 2].n
             error == f[pos + 3].n
         IN  IF error >= errt_limit THEN Failed(EIO, pos)
             ELSE With(rstack_load(mod, f, pos + 4), LAMBDA rstack :
                      IF rstack.rc # EOK THEN rstack
                      ELSE Loaded(rstack.pos,
                                  [robot_create(x, y, dir, rstack.val)
                                       EXCEPT !.error = error]))

\* The error is written as 1 or 0.
robot_save(mod, robot) ==
    <<FNum(robot.x), FNum(robot.y), FNum(robot.dir),
      FNum(IF robot.error # errt_none THEN 1 ELSE 0)>>
        \o rstack_save(mod, robot.rstack)

robots_create(m) ==
    [map |-> m, robots |-> <<>>, dorder |-> <<>>,
     rob |-> [id \in RobotIds |-> NoRobot]]

\* robots_load's loop: nrobots more robots added to w.
RECURSIVE RobotsLoadRobots(_, _, _, _, _)
RobotsLoadRobots(mod, f, pos, nrobots, w) ==
    IF nrobots = 0 THEN Loaded(pos, w)
    ELSE With(robot_load(mod, f, pos), LAMBDA robot :
             IF robot.rc # EOK THEN robot
             ELSE LET id == NewRobot(w)
                      w1 == [w EXCEPT !.rob[id] = robot.val]
                  IN  RobotsLoadRobots(mod, f, robot.pos, nrobots - 1,
                                       robots_add_robot(w1, id)))

robots_load(mod, m, f, pos) ==
    IF ~ScanNum(f, pos) THEN Failed(EIO, pos)
    ELSE RobotsLoadRobots(mod, f, pos + 1, f[pos].n, robots_create(m))

\* robots_save's loop: the robots from the i-th of the list on.
RECURSIVE RobotsSaveRobots(_, _, _)
RobotsSaveRobots(mod, w, i) ==
    IF i > Len(w.robots) THEN <<>>
    ELSE robot_save(mod, w.rob[w.robots[i]])
             \o RobotsSaveRobots(mod, w, i + 1)

robots_save(mod, w) ==
    <<FNum(Len(w.robots))>> \o RobotsSaveRobots(mod, w, 1)

(***************************************************************************)
(* The modules and maps the machine is run on.                             *)
(***************************************************************************)
\* Every Call is the last statement of its block.
\*   1 = [call 2]    2 = [move, call 1]    3 = [call 3]
\*   4 = []          5 = [turn-left, call 4]
TailModule ==
    << Proc(Ident(1), <<Call(2)>>),
       Proc(Ident(2), <<Intrinsic(progin_move), Call(1)>>),
       Proc(Ident(3), <<Call(3)>>),
       Proc(Ident(4), <<>>),
       Proc(Ident(5), <<Intrinsic(progin_turn_left), Call(4)>>) >>

\* Calls with a following sibling, an empty body, intrinsics that can fail.
\*   1 = []    2 = [move, put-white]
\*   3 = [call 2, pick-up, call 1, turn-left]    4 = [call 3, move]
CallModule ==
    << Proc(Ident(1), <<>>),
       Proc(Ident(2), <<Intrinsic(progin_move), Intrinsic(progin_put_white)>>),
       Proc(Ident(3), <<Call(2), Intrinsic(progin_pick_up), Call(1),
                        Intrinsic(progin_turn_left)>>),
       Proc(Ident(4), <<Call(3), Intrinsic(progin_move)>>) >>

\* Statements the stepping logic does not execute.
\*   1 = [if wall [move]]    2 = [turn-left, repeat 2 [move]]    3 = [recurse]
CtlModule ==
    << Proc(Ident(1), <<If(Cond(FALSE, progct_wall),
                           Block(<<Intrinsic(progin_move)>>), NullBlock)>>),
       Proc(Ident(2), <<Intrinsic(progin_turn_left),
                        Repeat(2, FALSE, Cond(FALSE, progct_wall),
                               Block(<<Intrinsic(progin_move)>>),
                               FALSE, Cond(FALSE, progct_wall))>>),
       Proc(Ident(3), <<Recurse>>) >>

Modules == {TailModule, CallModule, CtlModule}

\* The engine runs on a corridor, one tile wide and MapH tiles long.
Corridor == map_create(1, MapH)

\* The corridor with a wall on its last tile and a tag on its first.
WallCorridor ==
    map_set(map_set(Corridor, 0, MapH - 1, mapt_wall), 0, 0, mapt_gtag)

Maps == {Corridor, WallCorridor}

Tags == {mapt_wtag, mapt_gtag, mapt_btag}

NTags(m) == Cardinality({t \in DOMAIN m.tile : map_tile_tag(m.tile[t])})

Live == {robots[k] : k \in 1..Len(robots)}

(***************************************************************************)
(* The state machine: the host's calls.                                    *)
(***************************************************************************)
\* No call waits for the second copy; no second copy.
NoCall == [op |-> "none", robot |-> NULL, arg |-> NULL]
NoTwin == [w |-> NULL, rc |-> EOK, pend |-> NoCall]

Init ==
    /\ map \in Maps
    /\ prog \in Modules
    /\ robots = <<>>
    /\ dorder = <<>>
    /\ rob = [id \in RobotIds |-> NoRobot]
    /\ last = [op |-> "init", robot |-> NULL, rc |-> EOK, first |-> FALSE]
    /\ twin = NoTwin
    /\ file = <<>>
    /\ learn_proc = NoProc
    /\ loads = <<>>

\* The host stops laying tags on a map that holds MaxTags of them, and stops
\* stepping a robot whose continuation stack would pass MaxDepth entries.
SetWorld(w) ==
    /\ NTags(w.map) <= MaxTags \/ NTags(w.map) <= NTags(map)
    /\ \A id \in RobotIds : Len(w.rob[id].rstack) <= MaxDepth
    /\ map' = w.map
    /\ robots' = w.robots
    /\ dorder' = w.dorder
    /\ rob' = w.rob
    /\ prog' = prog

Logged(op, robot, rc) ==
    last' = [op |-> op, robot |-> robot, rc |-> rc,
             first |-> /\ op = "step"
                       /\ last.op = "run_proc" /\ last.rc = EOK
                       /\ last.robot = robot]

\* A call on the one copy there is.
Did(op, robot, rc) ==
    /\ Logged(op, robot, rc)
    /\ UNCHANGED <<twin, file, learn_proc, loads>>

\* mapedit places a robot on a tile that is not a wall.
RobotsAdd(x, y) ==
    /\ map_get(map, x, y) # mapt_wall
    /\ LET res == robots_add(World, x, y)
       IN  SetWorld(res.w) /\ Did("add", NULL, res.rc)

RobotsRemove(x, y) ==
    /\ SetWorld(robots_remove(World, x, y))
    /\ Did("remove", robots_get(World, x, y), EOK)

RobotTurnLeft(r) ==
    /\ SetWorld(robot_turn_left(World, r))
    /\ Did("turn_left", r, EOK)

RobotMove(r) ==
    /\ SetWorld(robot_move(World, r))
    /\ Did("move", r, EOK)

RobotPutWhite(r) ==
    /\ SetWorld(robot_put_white(World, r))
    /\ Did("put_white", r, EOK)

RobotPutGrey(r) ==
    /\ SetWorld(robot_put_grey(World, r))
    /\ Did("put_grey", r, EOK)

RobotPutBlack(r) ==
    /\ SetWorld(robot_put_black(World, r))
    /\ Did("put_black", r, EOK)

RobotPickUp(r) ==
    /\ SetWorld(robot_pick_up(World, r))
    /\ Did("pick_up", r, EOK)

RobotRunProc(r, p) ==
    LET res == robot_run_proc(prog, World, r, p)
    IN  SetWorld(res.w) /\ Did("run_proc", r, res.rc)

RobotStep(r) ==
    LET res == robot_step(prog, World, r)
    IN  SetWorld(res.w) /\ Did("step", r, res.rc)

RobotReset(r) ==
    /\ SetWorld(robot_reset(World, r))
    /\ Did("reset", r, EOK)

\* The execution engine: one robot on the corridor, started, stepped and reset
\* by the host, and moved by the host's immediate-mode verb.
Next ==
    \/ \E t \in DOMAIN map.tile : Len(robots) = 0 /\ RobotsAdd(t[1], t[2])
    \/ \E t \in DOMAIN map.tile : RobotsRemove(t[1], t[2])
    \/ \E r \in Live : RobotMove(r)
    \/ \E r \in Live, p \in 1..Len(prog) : RobotRunProc(r, p)
    \/ \E r \in Live : RobotStep(r)
    \/ \E r \in Live : RobotReset(r)

Spec == Init /\ [][Next]_vars

(***************************************************************************)
(* The robots collection: up to MaxMoved robots on a MapW x MapH map,      *)
(* placed, removed, turned and moved by the host.                          *)
(***************************************************************************)
InitOrder ==
    /\ map = map_create(MapW, MapH)
    /\ prog = <<>>
    /\ robots = <<>>
    /\ dorder = <<>>
    /\ rob = [id \in RobotIds |-> NoRobot]
    /\ last = [op |-> "init", robot |-> NULL, rc |-> EOK, first |-> FALSE]
    /\ twin = NoTwin
    /\ file = <<>>
    /\ learn_proc = NoProc
    /\ loads = <<>>

NextOrder ==
    \/ \E t \in DOMAIN map.tile :
          Len(robots) < MaxMoved /\ RobotsAdd(t[1], t[2])
    \/ \E t \in DOMAIN map.tile : RobotsRemove(t[1], t[2])
    \/ \E r \in Live : RobotTurnLeft(r)
    \/ \E r \in Live : RobotMove(r)

SpecOrder == InitOrder /\ [][NextOrder]_vars

\* The map editor alone: up to MaxRobots robots placed and removed, and moved
\* the way they face when placed.
NextPlace ==
    \/ \E t \in DOMAIN map.tile :
          Len(robots) < MaxRobots /\ RobotsAdd(t[1], t[2])
    \/ \E t \in DOMAIN map.tile : RobotsRemove(t[1], t[2])
    \/ \E r \in Live : RobotMove(r)

SpecPlace == InitOrder /\ [][NextPlace]_vars

\* The host saves the robots and the module and loads them back, in the
\* order of karlik_load: the robots, against the module the host holds, then
\* the module.  Each part is stored as its loader returns; the map stays as
\* it is.
KarlikSaveLoad ==
    \E f \in {robots_save(prog, World) \o prog_module_save(prog)} :
    \E lrobots \in {robots_load(prog, map, f, 1)} :
        IF lrobots.rc # EOK
        THEN /\ UNCHANGED <<map, robots, dorder, rob, prog>>
             /\ Did("load", NULL, lrobots.rc)
        ELSE \E lmod \in {prog_module_load(f, lrobots.pos)} :
                 /\ map' = map
                 /\ robots' = lrobots.val.robots
                 /\ dorder' = lrobots.val.dorder
                 /\ rob' = lrobots.val.rob
                 /\ prog' = IF lmod.rc = EOK THEN lmod.val ELSE prog
                 /\ Did("load", NULL, lmod.rc)

\* The engine with saving and loading.
NextSave ==
    \/ Next
    \/ KarlikSaveLoad

SpecSave == Init /\ [][NextSave]_vars

\* The verbs: one robot on a map of two rows with a wall in the corner of the
\* lower one, driven by the host's immediate-mode verbs and by a procedure
\* whose whole body is one move.
VerbMap == map_set(map_create(MapW, 2), MapW - 1, 1, mapt_wall)

VerbModule == <<Proc(Ident(1), <<Intrinsic(progin_move)>>)>>

InitVerbs ==
    /\ map = VerbMap
    /\ prog = VerbModule
    /\ robots = <<>>
    /\ dorder = <<>>
    /\ rob = [i \in RobotIds |-> NoRobot]
    /\ last = [op |-> "init", robot |-> NULL, rc |-> EOK, first |-> FALSE]
    /\ twin = NoTwin
    /\ file = <<>>
    /\ learn_proc = NoProc
    /\ loads = <<>>

NextVerbs ==
    \/ \E x \in 0..(MapW - 1), y \in 0..1 :
          Len(robots) = 0 /\ RobotsAdd(x, y)
    \/ \E r \in Live : RobotTurnLeft(r)
    \/ \E r \in Live : RobotMove(r)
    \/ \E r \in Live : RobotPutWhite(r)
    \/ \E r \in Live : RobotPutGrey(r)
    \/ \E r \in Live : RobotPutBlack(r)
    \/ \E r \in Live : RobotPickUp(r)
    \/ \E r \in Live : RobotRunProc(r, 1)
    \/ \E r \in Live : RobotStep(r)
    \/ \E r \in Live : RobotReset(r)

SpecVerbs == InitVerbs /\ [][NextVerbs]_vars

\* Two copies of the engine.  The host makes a call on the first copy, then
\* the same call on the second, and goes on to its next call.
EngineCall(w, call) ==
    CASE call.op = "add" -> robots_add(w, call.arg[1], call.arg[2])
      [] call.op = "run_proc" -> robot_run_proc(prog, w, call.robot, call.arg)
      [] call.op = "step" -> robot_step(prog, w, call.robot)
      [] call.op = "reset" -> [w |-> robot_reset(w, call.robot), rc |-> EOK]

InitTwin ==
    /\ map \in Maps
    /\ prog \in Modules
    /\ robots = <<>>
    /\ dorder = <<>>
    /\ rob = [id \in RobotIds |-> NoRobot]
    /\ last = [op |-> "init", robot |-> NULL, rc |-> EOK, first |-> FALSE]
    /\ twin = [w |-> World, rc |-> EOK, pend |-> NoCall]
    /\ file = <<>>
    /\ learn_proc = NoProc
    /\ loads = <<>>

FirstCopy(call) ==
    /\ twin.pend = NoCall
    /\ \E res \in {EngineCall(World, call)} :
          /\ SetWorld(res.w)
          /\ Logged(call.op, call.robot, res.rc)
    /\ twin' = [twin EXCEPT !.pend = call]
    /\ UNCHANGED <<file, learn_proc, loads>>

SecondCopy ==
    /\ twin.pend # NoCall
    /\ \E res \in {EngineCall(twin.w, twin.pend)} :
          twin' = [w |-> res.w, rc |-> res.rc, pend |-> NoCall]
    /\ UNCHANGED <<map, robots, dorder, rob, prog, last, file, learn_proc,
                   loads>>

NextTwin ==
    \/ \E t \in DOMAIN map.tile :
          /\ Len(robots) = 0
          /\ map_get(map, t[1], t[2]) # mapt_wall
          /\ FirstCopy([op |-> "add", robot |-> NULL, arg |-> t])
    \/ \E r \in Live, p \in 1..Len(prog) :
          FirstCopy([op |-> "run_proc", robot |-> r, arg |-> p])
    \/ \E r \in Live : FirstCopy([op |-> "step", robot |-> r, arg |-> NULL])
    \/ \E r \in Live : FirstCopy([op |-> "reset", robot |-> r, arg |-> NULL])
    \/ SecondCopy

SpecTwin == InitTwin /\ [][NextTwin]_vars

\* The modules of two procedures whose bodies are at most MaxBody statements
\* long, every Call bound to a procedure of the module.
ModuleStmts ==
    { Intrinsic(progin_move), Call(1), Call(2), Recurse,
      If(Cond(TRUE, progct_south), Block(<<Call(1)>>),
         Block(<<Intrinsic(progin_pick_up)>>)),
      Repeat(2, TRUE, Cond(FALSE, progct_wall),
             Block(<<Intrinsic(progin_turn_left)>>), FALSE, ZeroCond) }

ModuleBodies == UNION {[1..n -> ModuleStmts] : n \in 0..MaxBody}

ModuleSet == {<<Proc(Ident(1), b1), Proc(Ident(2), b2)>> :
                  b1 \in ModuleBodies, b2 \in ModuleBodies}

InitModule ==
    /\ map = map_create(1, 1)
    /\ prog \in ModuleSet
    /\ robots = <<>>
    /\ dorder = <<>>
    /\ rob = [id \in RobotIds |-> NoRobot]
    /\ last = [op |-> "init", robot |-> NULL, rc |-> EOK, first |-> FALSE]
    /\ twin = NoTwin
    /\ file = <<>>
    /\ learn_proc = NoProc
    /\ loads = <<>>

\* prog_module_save, then prog_module_load of what it wrote.
ModuleSaveLoad ==
    \E lmod \in {prog_module_load(prog_module_save(prog), 1)} :
        /\ prog' = IF lmod.rc = EOK THEN lmod.val ELSE prog
        /\ UNCHANGED <<map, robots, dorder, rob>>
        /\ Did("module_load", NULL, lmod.rc)

NextModule == ModuleSaveLoad

SpecModule == InitModule /\ [][NextModule]_vars

\* The module file on disk: the host saves the module, the file is damaged
\* in one item or cut short, and the host loads it.  A failed load leaves the
\* host with the module it had.
FileFirstBodies ==
    { <<>>, <<Intrinsic(progin_move)>>,
      <<If(Cond(FALSE, progct_wall), Block(<<Intrinsic(progin_move)>>),
           NullBlock)>> }

FileModules == {<<Proc(Ident(1), b1), Proc(Ident(2), b2)>> :
                   b1 \in FileFirstBodies, b2 \in ModuleBodies}

DamageItems == {FIdent(Ident(3)), FNum(0), FNum(progst_recurse + 1), FLetterR}

InitFile ==
    /\ map = map_create(1, 1)
    /\ prog \in FileModules
    /\ robots = <<>>
    /\ dorder = <<>>
    /\ rob = [id \in RobotIds |-> NoRobot]
    /\ last = [op |-> "init", robot |-> NULL, rc |-> EOK, first |-> FALSE]
    /\ twin = NoTwin
    /\ file = <<>>
    /\ learn_proc = NoProc
    /\ loads = <<>>

OnFile(op, rc) ==
    /\ Logged(op, NULL, rc)
    /\ UNCHANGED <<map, robots, dorder, rob, twin, learn_proc, loads>>

\* Only the modules of FileModules are saved: a module that a load of a
\* damaged file delivered is not taken further.
FileSave ==
    /\ prog \in FileModules
    /\ file' = prog_module_save(prog)
    /\ prog' = prog
    /\ OnFile("save", EOK)

FileDamage(pos, item) ==
    /\ last.op = "save"
    /\ pos \in 1..Len(file) /\ file[pos] # item
    /\ file' = [file EXCEPT ![pos] = item]
    /\ prog' = prog
    /\ OnFile("damage", EOK)

FileCut(len) ==
    /\ last.op = "save"
    /\ len < Len(file)
    /\ file' = SubSeq(file, 1, len)
    /\ prog' = prog
    /\ OnFile("cut", EOK)

FileLoad ==
    /\ last.op \in {"save", "damage", "cut"}
    /\ \E lmod \in {prog_module_load(file, 1)} :
          /\ prog' = IF lmod.rc = EOK THEN lmod.val ELSE prog
          /\ OnFile("file_load", lmod.rc)
    /\ file' = file

NextFile ==
    \/ FileSave
    \/ \E pos \in 1..Len(file), item \in DamageItems : FileDamage(pos, item)
    \/ \E len \in 0..Len(file) : FileCut(len)
    \/ FileLoad

SpecFile == InitFile /\ [][NextFile]_vars

\* The robots file on disk: one robot runs CallModule on the corridor; the
\* host saves the robots, the file is damaged in one item or cut short, and
\* the host loads it against the module.  Nothing is run after that.
StackDamageItems ==
    {FIdent(Ident(1)), FIdent(Ident(9)), FNum(0), FNum(2), FNum(5)}

InitStack ==
    /\ map = Corridor
    /\ prog = CallModule
    /\ robots = <<>>
    /\ dorder = <<>>
    /\ rob = [id \in RobotIds |-> NoRobot]
    /\ last = [op |-> "init", robot |-> NULL, rc |-> EOK, first |-> FALSE]
    /\ twin = NoTwin
    /\ file = <<>>
    /\ learn_proc = NoProc
    /\ loads = <<>>

RobotsFileSave ==
    /\ file = <<>> /\ Len(robots) = 1
    /\ file' = robots_save(prog, World)
    /\ prog' = prog
    /\ OnFile("save", EOK)

RobotsFileLoad ==
    /\ last.op \in {"save", "damage", "cut"}
    /\ \E lrobots \in {robots_load(prog, map, file, 1)} :
          \/ /\ lrobots.rc = EOK
             /\ robots' = lrobots.val.robots
             /\ dorder' = lrobots.val.dorder
             /\ rob' = lrobots.val.rob
             /\ Logged("robots_load", NULL, EOK)
          \/ /\ lrobots.rc \notin {EOK, UNDEFINED}
             /\ UNCHANGED <<robots, dorder, rob>>
             /\ Logged("robots_load", NULL, lrobots.rc)
          \/ /\ lrobots.rc = UNDEFINED
             /\ UNCHANGED <<robots, dorder, rob>>
             /\ \E out \in UndefinedOutcomes :
                   Logged("robots_load", NULL, out)
    /\ UNCHANGED <<map, prog, twin, file, learn_proc, loads>>

NextStack ==
    \/ \E t \in DOMAIN map.tile :
          file = <<>> /\ Len(robots) = 0 /\ RobotsAdd(t[1], t[2])
    \/ \E r \in Live, p \in 1..Len(prog) : file = <<>> /\ RobotRunProc(r, p)
    \/ \E r \in Live : file = <<>> /\ RobotStep(r)
    \/ RobotsFileSave
    \/ \E pos \in 1..Len(file), item \in StackDamageItems :
          FileDamage(pos, item)
    \/ \E len \in 0..Len(file) : FileCut(len)
    \/ RobotsFileLoad

SpecStack == InitStack /\ [][NextStack]_vars

\* Several robots run programs: up to MaxMoved robots on the corridor, each
\* started, stepped and reset by the host in any order.
PairModule ==
    << Proc(Ident(1), <<Intrinsic(progin_move)>>),
       Proc(Ident(2), <<Call(1), Intrinsic(progin_turn_left)>>) >>

InitPair ==
    /\ map = Corridor
    /\ prog = PairModule
    /\ robots = <<>>
    /\ dorder = <<>>
    /\ rob = [id \in RobotIds |-> NoRobot]
    /\ last = [op |-> "init", robot |-> NULL, rc |-> EOK, first |-> FALSE]
    /\ twin = NoTwin
    /\ file = <<>>
    /\ learn_proc = NoProc
    /\ loads = <<>>

NextPair ==
    \/ \E t \in DOMAIN map.tile :
          Len(robots) < MaxMoved /\ RobotsAdd(t[1], t[2])
    \/ \E r \in Live, p \in 1..Len(prog) : RobotRunProc(r, p)
    \/ \E r \in Live : RobotStep(r)
    \/ \E r \in Live : RobotReset(r)

SpecPair == InitPair /\ [][NextPair]_vars

\* The workspace file: karlik_save writes the robots and then the module;
\* karlik_load calls the loaders in the order of its code, the robots' and
\* then the module's, storing what each delivers as it returns.  When the
\* robots are loaded the module of the file is not loaded yet: the module
\* there is to resolve against is the one the host holds.  The map stays as
\* it is.
InitWorkspace ==
    /\ map = Corridor
    /\ prog = PairModule
    /\ robots = <<>>
    /\ dorder = <<>>
    /\ rob = [id \in RobotIds |-> NoRobot]
    /\ last = [op |-> "init", robot |-> NULL, rc |-> EOK, first |-> FALSE]
    /\ twin = NoTwin
    /\ file = <<>>
    /\ learn_proc = NoProc
    /\ loads = <<>>

karlik_save ==
    /\ file' = robots_save(prog, World) \o prog_module_save(prog)
    /\ Logged("save", NULL, EOK)
    /\ UNCHANGED <<map, robots, dorder, rob, prog, twin, learn_proc, loads>>

karlik_load ==
    /\ last.op = "save"
    /\ \E lrobots \in {robots_load(prog, map, file, 1)} :
          IF lrobots.rc # EOK
          THEN /\ loads' = <<"map_load", "robots_load">>
               /\ UNCHANGED <<robots, dorder, rob, prog>>
               /\ Logged("karlik_load", NULL, lrobots.rc)
          ELSE /\ robots' = lrobots.val.robots
               /\ dorder' = lrobots.val.dorder
               /\ rob' = lrobots.val.rob
               /\ loads' = <<"map_load", "robots_load", "prog_module_load">>
               /\ \E lmod \in {prog_module_load(file, lrobots.pos)} :
                     /\ prog' = IF lmod.rc = EOK THEN lmod.val ELSE prog
                     /\ Logged("karlik_load", NULL, lmod.rc)
    /\ UNCHANGED <<map, twin, file, learn_proc>>

NextWorkspace ==
    \/ \E t \in DOMAIN map.tile :
          file = <<>> /\ Len(robots) < MaxMoved /\ RobotsAdd(t[1], t[2])
    \/ \E r \in Live, p \in 1..Len(prog) : file = <<>> /\ RobotRunProc(r, p)
    \/ \E r \in Live : file = <<>> /\ RobotStep(r)
    \/ karlik_save
    \/ karlik_load

SpecWorkspace == InitWorkspace /\ [][NextWorkspace]_vars

\* Learning a procedure: the host generates an identifier for it, takes the
\* statements the user picks and, when the user accepts an icon for it,
\* appends the procedure to the module.
\* The letters that 'A' + random() % 26 gives, the first NumLetters of them.
Letters == 1..NumLetters

\* The byte after the identifier's letters, while the terminator is not yet
\* written: malloc left it as it was, 0 or anything else.
Terminators == {0, 1}

\* strcmp(proc->ident, ident) == 0 for some procedure, the candidate ident
\* being followed by the byte term.
IdentFound(mod, ident, term) ==
    term = 0 /\ prog_module_proc_by_ident(mod, ident) # NULL

\* The identifiers that prog_module_gen_ident can return: its loop ends on
\* the first candidate that the lookup does not find.
prog_module_gen_ident(mod, term) ==
    {ident \in [1..prog_proc_id_len -> Letters] :
        ~IdentFound(mod, ident, term)}

InitLearn ==
    /\ map = map_create(1, 1)
    /\ prog = VerbModule
    /\ robots = <<>>
    /\ dorder = <<>>
    /\ rob = [id \in RobotIds |-> NoRobot]
    /\ last = [op |-> "init", robot |-> NULL, rc |-> EOK, first |-> FALSE]
    /\ twin = NoTwin
    /\ file = <<>>
    /\ learn_proc = NoProc
    /\ loads = <<>>

OnVocabed(op) ==
    /\ Logged(op, NULL, EOK)
    /\ UNCHANGED <<map, robots, dorder, rob, twin, file, loads>>

vocabed_learn ==
    /\ learn_proc = NoProc
    /\ Len(prog) < MaxProcs
    /\ \E term \in Terminators :
          \E ident \in prog_module_gen_ident(prog, term) :
             learn_proc' = Proc(ident, <<>>)
    /\ prog' = prog
    /\ OnVocabed("learn")

vocabed_learn_intrinsic(itype) ==
    /\ learn_proc # NoProc
    /\ Len(learn_proc.body.stmts) < MaxBody
    /\ learn_proc' = [learn_proc EXCEPT
                         !.body.stmts = list_append(Intrinsic(itype), @)]
    /\ prog' = prog
    /\ OnVocabed("learn_intrinsic")

vocabed_icondlg_accept ==
    /\ learn_proc # NoProc
    /\ prog' = prog_module_append(prog, learn_proc)
    /\ learn_proc' = NoProc
    /\ OnVocabed("accept")

NextLearn ==
    \/ vocabed_learn
    \/ \E itype \in progin_turn_left..progin_pick_up :
          vocabed_learn_intrinsic(itype)
    \/ vocabed_icondlg_accept

SpecLearn == InitLearn /\ [][NextLearn]_vars

\* C1: iterating the robots in draw order yields non-decreasing y values.
DrawOrderSorted ==
    \A i \in 1..(Len(dorder) - 1) : rob[dorder[i]].y <= rob[dorder[i + 1]].y

(***************************************************************************)
(* The properties, and the vocabulary they are stated in.                  *)
(***************************************************************************)
\* Every Call statement of block b, nested blocks included, is the last
\* statement of its block.
RECURSIVE CallsTailIn(_)
CallsTailIn(b) ==
    \A i \in 1..Len(b.stmts) :
        LET s == b.stmts[i]
        IN  /\ s.stype = progst_call => i = Len(b.stmts)
            /\ s.stype = progst_if =>
                   CallsTailIn(s.btrue) /\ (s.bfalse.null \/ CallsTailIn(s.bfalse))
            /\ s.stype = progst_repeat => CallsTailIn(s.body)

AllCallsTail(mod) == \A p \in 1..Len(mod) : CallsTailIn(mod[p].body)

Idle(r) == r.cur_stmt = NoStmt /\ r.error = errt_none
Running(r) == r.cur_stmt # NoStmt
Stopped(r) == r.error # errt_none

\* The transition is robot_step / robot_run_proc called on robot r.
StepOf(r) == last'.op = "step" /\ last'.robot = r
RunProcOf(r) == last'.op = "run_proc" /\ last'.robot = r

\* robot_step on r executes a statement of type stype (r is Running, no error).
StepsStmt(r, stype) ==
    /\ StepOf(r)
    /\ rob[r].cur_stmt # NoStmt
    /\ rob[r].error = errt_none
    /\ Deref(prog, rob[r].cur_stmt).stype = stype

\* C2: in a program whose every Call is the last statement of its block, the
\* continuation stack of every robot has depth 0 in every state.
TailCallDepthZero ==
    AllCallsTail(prog) => \A r \in Live : Len(rob[r].rstack) = 0

\* A step has just taken the tail call from procedure 2 back to procedure 1,
\* which is reached only after 2's move was executed.
TailCallTaken ==
    /\ prog = TailModule
    /\ last.op = "step" /\ last.rc = EOK
    /\ rob[last.robot].cur_stmt = StmtAt(1, 1)
    /\ rob[last.robot].cur_proc = 1

\* C5: robot_step on a Call that has a following sibling pushes exactly one
\* entry (current procedure, that sibling) and sets the cursor to (callee,
\* first statement of the callee's body); on a Call with no following sibling
\* it pushes nothing and sets the cursor the same way.
CallStepEffect ==
    [][\A r \in Live :
         StepsStmt(r, progst_call) =>
            LET scall == rob[r].cur_stmt
                snext == prog_block_next(prog, scall)
                callee == Deref(prog, scall).proc
            IN  /\ last'.rc = EOK
                /\ rob'[r].cur_proc = callee
                /\ rob'[r].cur_stmt =
                      IF Len(prog[callee].body.stmts) = 0 THEN NoStmt
                      ELSE StmtAt(callee, 1)
                /\ rob'[r].rstack =
                      IF snext # NoStmt
                      THEN Append(rob[r].rstack,
                                  [caller_proc |-> rob[r].cur_proc,
                                   caller_stmt |-> snext])
                      ELSE rob[r].rstack]_vars

\* A step has just executed the call at the head of procedure 3, which has a
\* following sibling: the entry (3, second statement) is on top of the stack.
CallPushed ==
    /\ prog = CallModule
    /\ last.op = "step" /\ last.rc = EOK
    /\ rob[last.robot].cur_stmt = StmtAt(2, 1)
    /\ Len(rob[last.robot].rstack) > 0
    /\ rstack_last(rob[last.robot].rstack) =
          [caller_proc |-> 3, caller_stmt |-> StmtAt(3, 2)]

\* C6: robot_step on an intrinsic that succeeds sets the cursor to the next
\* sibling; when there is none it pops the top continuation-stack entry into
\* the cursor if the stack is non-empty, and otherwise leaves the robot Idle.
IntrinsicStepEffect ==
    [][\A r \in Live :
         (StepsStmt(r, progst_intrinsic) /\ rob'[r].error = errt_none) =>
            LET snext == prog_block_next(prog, rob[r].cur_stmt)
                rstack == rob[r].rstack
            IN  IF snext # NoStmt
                THEN /\ rob'[r].cur_stmt = snext
                     /\ rob'[r].cur_proc = rob[r].cur_proc
                     /\ rob'[r].rstack = rstack
                ELSE IF Len(rstack) > 0
                THEN /\ rob'[r].cur_proc = rstack[Len(rstack)].caller_proc
                     /\ rob'[r].cur_stmt = rstack[Len(rstack)].caller_stmt
                     /\ rob'[r].rstack = SubSeq(rstack, 1, Len(rstack) - 1)
                ELSE /\ Idle(rob'[r])
                     /\ ~robot_is_busy(World', r)
                     /\ rob'[r].rstack = <<>>]_vars

\* A step has just finished procedure 2 (put-white succeeded on the last
\* statement) and popped the continuation (3, pick-up) into the cursor.
ContinuationPopped ==
    /\ prog = CallModule
    /\ last.op = "step" /\ last.rc = EOK
    /\ rob[last.robot].cur_stmt = StmtAt(3, 2)
    /\ rob[last.robot].cur_proc = 3
    /\ rob[last.robot].error = errt_none
    /\ map_get(map, rob[last.robot].x, rob[last.robot].y) = mapt_wtag

\* The original statement of C7: robot_run_proc of an empty-bodied procedure
\* on an Idle robot, followed by one robot_step, leaves the robot Idle with
\* the step succeeding and map, position and direction unchanged.
EmptyProcStepSucceeds ==
    [][\A r \in Live :
         (/\ last.op = "run_proc" /\ last.rc = EOK /\ last.robot = r
          /\ rob[r].cur_proc # NULL
          /\ Len(prog[rob[r].cur_proc].body.stmts) = 0
          /\ StepOf(r)) =>
            /\ last'.rc = EOK
            /\ Idle(rob'[r])
            /\ map' = map
            /\ rob'[r].x = rob[r].x /\ rob'[r].y = rob[r].y
            /\ rob'[r].dir = rob[r].dir]_vars

\* C7 (as the code has it): robot_run_proc of an empty-bodied procedure on
\* an Idle robot succeeds and leaves the robot Idle at once, with map,
\* position and direction unchanged; one robot_step after it returns the
\* invalid-state error and leaves the robot Idle and map, position and
\* direction unchanged.
EmptyProcStepRefused ==
    [][\A r \in Live :
         /\ (/\ RunProcOf(r) /\ Idle(rob[r])
             /\ last'.rc = EOK
             /\ Len(prog[rob'[r].cur_proc].body.stmts) = 0) =>
                /\ Idle(rob'[r])
                /\ map' = map
                /\ rob'[r].x = rob[r].x /\ rob'[r].y = rob[r].y
                /\ rob'[r].dir = rob[r].dir
         /\ (/\ last.op = "run_proc" /\ last.rc = EOK /\ last.robot = r
             /\ rob[r].cur_proc # NULL
             /\ Len(prog[rob[r].cur_proc].body.stmts) = 0
             /\ StepOf(r)) =>
                /\ last'.rc = EINVAL
                /\ Idle(rob'[r])
                /\ map' = map
                /\ rob'[r].x = rob[r].x /\ rob'[r].y = rob[r].y
                /\ rob'[r].dir = rob[r].dir]_vars

\* The one robot_step after robot_run_proc of an empty-bodied procedure has
\* returned.
EmptyProcStepped ==
    /\ last.op = "step" /\ last.first
    /\ rob[last.robot].cur_proc # NULL
    /\ Len(prog[rob[last.robot].cur_proc].body.stmts) = 0
    /\ Idle(rob[last.robot])

\* C8: robot_run_proc on a robot that is Running or Stopped-on-error returns
\* the busy error and leaves cursor, current procedure, error and
\* continuation stack unchanged.
RunProcBusy ==
    [][\A r \in Live :
         (RunProcOf(r) /\ (Running(rob[r]) \/ Stopped(rob[r]))) =>
            /\ last'.rc = EBUSY
            /\ rob'[r].cur_stmt = rob[r].cur_stmt
            /\ rob'[r].cur_proc = rob[r].cur_proc
            /\ rob'[r].error = rob[r].error
            /\ rob'[r].rstack = rob[r].rstack]_vars

\* robot_run_proc has just been refused on a robot whose only reason to be
\* busy is its error (no cursor).
RunProcRefusedOnError ==
    /\ last.op = "run_proc" /\ last.rc = EBUSY
    /\ rob[last.robot].error # errt_none
    /\ rob[last.robot].cur_stmt = NoStmt

\* C9: robot_step on a robot that is not Running (no cursor, or error set)
\* returns the invalid-state error and changes nothing: map, position,
\* direction, cursor, error and continuation stack.
StepInvalidState ==
    [][\A r \in Live :
         (StepOf(r) /\ (rob[r].cur_stmt = NoStmt \/ rob[r].error # errt_none)) =>
            /\ last'.rc = EINVAL
            /\ map' = map
            /\ rob'[r] = rob[r]]_vars

\* robot_step has just been refused on a robot that has a cursor and an
\* error.
StepRefusedOnError ==
    /\ last.op = "step" /\ last.rc = EINVAL
    /\ rob[last.robot].error # errt_none
    /\ rob[last.robot].cur_stmt # NoStmt

\* C10: a robot_step that sets the error leaves the cursor on the failing
\* statement and position and map as they were; and while the error is set,
\* robot_step and robot_run_proc on that robot leave the error, the cursor,
\* the position and the map unchanged (only robot_reset clears the error).
ErrorSticky ==
    [][\A r \in Live :
         /\ (StepOf(r) /\ rob[r].error = errt_none
                       /\ rob'[r].error # errt_none) =>
                /\ rob'[r].cur_stmt = rob[r].cur_stmt
                /\ rob[r].cur_stmt # NoStmt
                /\ rob'[r].x = rob[r].x /\ rob'[r].y = rob[r].y
                /\ map' = map
         /\ (rob[r].error # errt_none /\ (StepOf(r) \/ RunProcOf(r))) =>
                /\ rob'[r].error = rob[r].error
                /\ rob'[r].cur_stmt = rob[r].cur_stmt
                /\ rob'[r].x = rob[r].x /\ rob'[r].y = rob[r].y
                /\ map' = map
         /\ (rob[r].error # errt_none /\ rob'[r].error = errt_none) =>
                last'.op \in {"reset", "remove"}]_vars

\* A robot_step set hit-wall on a move that is not the last statement of
\* its procedure, and robot_run_proc has since been tried on the robot.
ErrorKept ==
    /\ last.op = "run_proc" /\ last.rc = EBUSY
    /\ rob[last.robot].error = errt_hit_wall
    /\ rob[last.robot].cur_stmt # NoStmt
    /\ Deref(prog, rob[last.robot].cur_stmt) = Intrinsic(progin_move)
    /\ prog_block_next(prog, rob[last.robot].cur_stmt) # NoStmt

\* The host's loop: robot_step while the robot is busy and has no error, at
\* most fuel times.
RECURSIVE RunToEnd(_, _, _, _)
RunToEnd(mod, w, robot, fuel) ==
    IF fuel = 0 \/ ~robot_is_busy(w, robot)
                \/ robot_error(w, robot) # errt_none
    THEN w
    ELSE LET res == robot_step(mod, w, robot)
         IN  IF res.rc # EOK THEN w
             ELSE RunToEnd(mod, res.w, robot, fuel - 1)

\* The robot is Idle or stopped on an error.
AtEnd(w, robot) ==
    ~robot_is_busy(w, robot) \/ robot_error(w, robot) # errt_none

\* C3: for a robot paused mid-call (cursor set, continuation stack
\* non-empty), saving module and robots and loading them back gives a robot
\* that, stepped until Idle or error, reaches the same final map, position,
\* direction and error as the original stepped on without saving.
ResumeAfterLoad ==
    [][\A k \in 1..Len(robots) :
         (/\ last'.op = "load" /\ last'.rc = EOK
          /\ rob[robots[k]].cur_stmt # NoStmt
          /\ Len(rob[robots[k]].rstack) > 0) =>
            LET r == robots[k]
                lr == robots'[k]
                a == RunToEnd(prog, World, r, MaxSteps)
                b == RunToEnd(prog', World', lr, MaxSteps)
            IN  (AtEnd(a, r) /\ AtEnd(b, lr)) =>
                    /\ b.map = a.map
                    /\ b.rob[lr].x = a.rob[r].x
                    /\ b.rob[lr].y = a.rob[r].y
                    /\ b.rob[lr].dir = a.rob[r].dir
                    /\ b.rob[lr].error = a.rob[r].error]_vars

\* Blocks b1 of module m1 and b2 of m2 hold the same sequence of statement
\* types, nested blocks included, every Call naming the same identifier.
RECURSIVE SameBlock(_, _, _, _)
SameBlock(m1, b1, m2, b2) ==
    /\ b1.null = b2.null
    /\ Len(b1.stmts) = Len(b2.stmts)
    /\ \A i \in 1..Len(b1.stmts) :
          LET s1 == b1.stmts[i]
              s2 == b2.stmts[i]
          IN  /\ s1.stype = s2.stype
              /\ s1.stype = progst_call =>
                     m1[s1.proc].ident = m2[s2.proc].ident
              /\ s1.stype = progst_if =>
                     /\ SameBlock(m1, s1.btrue, m2, s2.btrue)
                     /\ SameBlock(m1, s1.bfalse, m2, s2.bfalse)
              /\ s1.stype = progst_repeat =>
                     SameBlock(m1, s1.body, m2, s2.body)

SameModule(m1, m2) ==
    /\ Len(m1) = Len(m2)
    /\ \A p \in 1..Len(m1) :
          /\ m1[p].ident = m2[p].ident
          /\ SameBlock(m1, m1[p].body, m2, m2[p].body)

\* C4: for every module, self calls and calls to later procedures included,
\* prog_module_save followed by prog_module_load succeeds and yields a
\* module with the same identifiers in the same order, the same statement
\* sequence and types in every block, and every Call bound to the procedure
\* with the same identifier.
ModuleRoundTrip ==
    [][last'.op = "module_load" =>
          /\ last'.rc = EOK
          /\ SameModule(prog, prog')]_vars

\* C11: when an intrinsic fails inside robot_step (hit-wall, already-tag or
\* no-tag), that step leaves the map, the robot's position and direction, the
\* draw order and the continuation stack unchanged, and the cursor still
\* points at the failing statement.
FailedIntrinsicFrame ==
    [][\A r \in Live :
         (StepsStmt(r, progst_intrinsic) /\ rob'[r].error # errt_none) =>
            /\ rob'[r].error \in {errt_hit_wall, errt_already_tag, errt_no_tag}
            /\ map' = map
            /\ rob'[r].x = rob[r].x /\ rob'[r].y = rob[r].y
            /\ rob'[r].dir = rob[r].dir
            /\ dorder' = dorder
            /\ rob'[r].rstack = rob[r].rstack
            /\ rob'[r].cur_stmt = rob[r].cur_stmt
            /\ rob'[r].cur_proc = rob[r].cur_proc]_vars

\* A step has just failed on the pick-up of procedure 3 (no tag under the
\* robot) while a continuation was on the stack.
PickUpFailedInStep ==
    /\ prog = CallModule
    /\ last.op = "step"
    /\ rob[last.robot].error = errt_no_tag
    /\ rob[last.robot].cur_stmt = StmtAt(3, 2)
    /\ Len(rob[last.robot].rstack) > 0

\* C12: robot_step with the cursor on an If, Repeat or Recurse statement
\* returns the unsupported error and leaves cursor, error, continuation
\* stack, position, direction and map unchanged.
UnsupportedStep ==
    [][\A r \in Live :
         (\E stype \in {progst_if, progst_repeat, progst_recurse} :
               StepsStmt(r, stype)) =>
            /\ last'.rc = ENOTSUP
            /\ rob'[r] = rob[r]
            /\ map' = map]_vars

\* A step has just been refused on the Repeat that follows the turn-left of
\* procedure 2.
RepeatRefused ==
    /\ prog = CtlModule
    /\ last.op = "step" /\ last.rc = ENOTSUP
    /\ rob[last.robot].cur_stmt = StmtAt(2, 2)
    /\ rob[last.robot].error = errt_none

\* The tiles whose content differs between maps m1 and m2.
TilesChanged(m1, m2) == {t \in DOMAIN m1.tile : m1.tile[t] # m2.tile[t]}

\* C14: every successful robot_step (it returns no error and sets none)
\* performs exactly one of: one intrinsic world action, a single change to
\* the direction, to the position or to one map tile; or one control-flow
\* hop of a Call with no change to map, position or direction.
OneEffectPerStep ==
    [][\A r \in Live :
         (StepOf(r) /\ last'.rc = EOK /\ rob'[r].error = errt_none) =>
            LET turned == rob'[r].dir # rob[r].dir
                moved == rob'[r].x # rob[r].x \/ rob'[r].y # rob[r].y
                ntiles == Cardinality(TilesChanged(map, map'))
                stype == Deref(prog, rob[r].cur_stmt).stype
            IN  \/ /\ stype = progst_intrinsic
                   /\ \/ turned /\ ~moved /\ ntiles = 0
                      \/ ~turned /\ moved /\ ntiles = 0
                      \/ ~turned /\ ~moved /\ ntiles = 1
                \/ /\ stype = progst_call
                   /\ ~turned /\ ~moved /\ ntiles = 0
                   /\ rob'[r].cur_proc = Deref(prog, rob[r].cur_stmt).proc]_vars

\* A step has just changed one tile: the put-white that ends procedure 2 laid
\* its tag and the robot went Idle.
OneTileChanged ==
    /\ prog = CallModule
    /\ last.op = "step" /\ last.rc = EOK
    /\ Idle(rob[last.robot])
    /\ rob[last.robot].cur_proc = NULL
    /\ map_get(map, rob[last.robot].x, rob[last.robot].y) = mapt_wtag

\* The procedures block b calls, nested blocks included.
RECURSIVE BlockCallees(_)
BlockCallees(b) ==
    UNION { LET st == b.stmts[i]
            IN  CASE st.stype = progst_call -> {st.proc}
                  [] st.stype = progst_if ->
                         BlockCallees(st.btrue) \cup BlockCallees(st.bfalse)
                  [] st.stype = progst_repeat -> BlockCallees(st.body)
                  [] OTHER -> {}
            : i \in 1..Len(b.stmts) }

\* The procedures reached from those of S by at most n calls.
RECURSIVE CalledWithin(_, _, _)
CalledWithin(mod, S, n) ==
    IF n = 0 THEN S
    ELSE CalledWithin(mod,
                      S \cup UNION {BlockCallees(mod[q].body) : q \in S},
                      n - 1)

\* Procedure p and its callees, direct and indirect.
ProcAndCallees(mod, p) == CalledWithin(mod, {p}, Len(mod))

\* The procedures whose statements the host's loop executes from w on: the
\* procedure of the cursor at every robot_step, at most fuel of them.
RECURSIVE ProcsExecuted(_, _, _, _)
ProcsExecuted(mod, w, robot, fuel) ==
    IF fuel = 0 \/ ~robot_is_busy(w, robot)
                \/ robot_error(w, robot) # errt_none
    THEN {}
    ELSE {w.rob[robot].cur_stmt.proc}
             \cup LET res == robot_step(mod, w, robot)
                  IN  IF res.rc # EOK THEN {}
                      ELSE ProcsExecuted(mod, res.w, robot, fuel - 1)

\* C13: after robot_reset, from any state, the robot is Idle (no error, no
\* cursor, robot_is_busy false), and a robot_run_proc that follows succeeds
\* and executes only statements of the procedure it started and of that
\* procedure's callees.
ResetDiscardsProgress ==
    [][\A r \in Live :
         (last'.op = "reset" /\ last'.robot = r) =>
            /\ Idle(rob'[r])
            /\ ~robot_is_busy(World', r)
            /\ \A p \in 1..Len(prog) :
                  LET res == robot_run_proc(prog, World', r, p)
                  IN  /\ res.rc = EOK
                      /\ ProcsExecuted(prog, res.w, r, MaxSteps)
                             \subseteq ProcAndCallees(prog, p)]_vars

\* The unit offset of each facing, as the specification lists them.
UnitOffset(dir) ==
    CASE dir = dir_east -> <<1, 0>>
      [] dir = dir_north -> <<0, -1>>
      [] dir = dir_west -> <<-1, 0>>
      [] dir = dir_south -> <<0, 1>>

\* The transition is the verb op applied to robot r.
VerbOf(op, r) == last'.op = op /\ last'.robot = r

Under(r) == <<rob[r].x, rob[r].y>>

\* The verbs that lay a tag, each with the tag it lays.
PutVerbs ==
    {<<"put_white", mapt_wtag>>, <<"put_grey", mapt_gtag>>,
     <<"put_black", mapt_btag>>}

\* C16: robot_put_white, robot_put_grey and robot_put_black set error
\* already-tag and leave the map unchanged when the tile under the robot is
\* not empty; otherwise they set that one tile to the corresponding tag,
\* change no other tile, and set no error.
PutEffect ==
    [][\A r \in Live : \A verb \in PutVerbs :
         VerbOf(verb[1], r) =>
            IF map.tile[Under(r)] # mapt_none
            THEN rob'[r].error = errt_already_tag /\ map' = map
            ELSE /\ map'.tile[Under(r)] = verb[2]
                 /\ TilesChanged(map, map') = {Under(r)}
                 /\ rob'[r].error = rob[r].error]_vars

\* A grey tag has just been laid under the robot while another tile of the
\* map holds a tag.
GreyTagLaid ==
    /\ last.op = "put_grey"
    /\ \E r \in Live :
          /\ map.tile[Under(r)] = mapt_gtag
          /\ rob[r].error = errt_none
    /\ NTags(map) = 2

\* C17: robot_pick_up sets error no-tag and leaves the map unchanged when the
\* tile under the robot is not a tag; otherwise it sets that one tile to
\* empty, changes no other tile, and sets no error.
PickUpEffect ==
    [][\A r \in Live :
         VerbOf("pick_up", r) =>
            IF map.tile[Under(r)] \notin {mapt_wtag, mapt_gtag, mapt_btag}
            THEN rob'[r].error = errt_no_tag /\ map' = map
            ELSE /\ map'.tile[Under(r)] = mapt_none
                 /\ TilesChanged(map, map') = {Under(r)}
                 /\ rob'[r].error = rob[r].error]_vars

\* A pick-up has just emptied the tile under the robot and left the other tag
\* of the map in place.
TagPickedUp ==
    /\ last.op = "pick_up"
    /\ \E r \in Live :
          /\ rob[r].error = errt_none
          /\ map.tile[Under(r)] = mapt_none
    /\ NTags(map) = 1

\* The direction that follows dir in the cycle east, north, west, south, east.
TurnCycle(dir) ==
    CASE dir = dir_east -> dir_north
      [] dir = dir_north -> dir_west
      [] dir = dir_west -> dir_south
      [] dir = dir_south -> dir_east

\* C18: robot_turn_left never sets an error, changes only the direction, and
\* steps through the cycle east, north, west, south, east; four consecutive
\* turn-lefts restore the original direction.
TurnLeftEffect ==
    [][\A r \in Live :
         VerbOf("turn_left", r) =>
            /\ rob'[r].error = rob[r].error
            /\ rob'[r].dir = TurnCycle(rob[r].dir)
            /\ rob' = [rob EXCEPT ![r].dir = rob'[r].dir]
            /\ map' = map /\ robots' = robots /\ dorder' = dorder
            /\ LET three == robot_turn_left(
                               robot_turn_left(
                                  robot_turn_left(World', r), r), r)
               IN  three.rob[r].dir = rob[r].dir /\ three = World]_vars

\* A turn-left has just brought the robot from facing south to facing east,
\* and it carries no error.
TurnedSouthToEast ==
    /\ last.op = "turn_left"
    /\ \E r \in Live : rob[r].dir = dir_east /\ rob[r].error = errt_none

\* The transition is robots_add(x, y).
AddOf(x, y) ==
    /\ last'.op = "add"
    /\ \E res \in {robots_add(World, x, y)} :
          World' = res.w /\ last'.rc = res.rc

\* A robot stands on tile (x, y).
Occupied(x, y) == \E r \in Live : rob[r].x = x /\ rob[r].y = y

\* list is base with the one new entry n put in somewhere.
AddedTo(list, base, n) ==
    /\ Len(list) = Len(base) + 1
    /\ SelectSeq(list, LAMBDA e : e # n) = base

\* C19: robots_add(x,y) on a tile already occupied by a robot returns the
\* exists error and leaves both the unordered list and the draw order
\* unchanged; on a free tile it adds exactly one new robot at (x,y), with no
\* error, no cursor and an empty continuation stack, to both lists.
AddEffect ==
    [][\A x \in 0..(MapW - 1), y \in 0..(MapH - 1) :
         AddOf(x, y) =>
            IF Occupied(x, y)
            THEN /\ last'.rc = EEXIST
                 /\ robots' = robots /\ dorder' = dorder /\ rob' = rob
            ELSE /\ last'.rc = EOK
                 /\ \E n \in RobotIds \ Live :
                       /\ AddedTo(robots', robots, n)
                       /\ AddedTo(dorder', dorder, n)
                       /\ rob'[n].x = x /\ rob'[n].y = y
                       /\ rob'[n].error = errt_none
                       /\ rob'[n].cur_stmt = NoStmt
                       /\ Len(rob'[n].rstack) = 0
                       /\ \A r \in Live : rob'[r] = rob[r]]_vars

\* robots_add has just been refused on the tile of one of the two robots
\* there are.
AddRefused ==
    /\ last.op = "add" /\ last.rc = EEXIST
    /\ Len(robots) = 2 /\ Len(dorder) = 2

\* seq with n put in at index k.
InsertAt(seq, k, n) ==
    SubSeq(seq, 1, k - 1) \o <<n>> \o SubSeq(seq, k, Len(seq))

\* The index of the first entry of the draw order whose y is greater than y
\* (FirstGreater), or is not less than y (FirstNotLess); one past the end when
\* there is none.
FirstGreater(y) ==
    LET S == {k \in 1..Len(dorder) : rob[dorder[k]].y > y}
    IN  IF S = {} THEN Len(dorder) + 1
        ELSE CHOOSE k \in S : \A j \in S : k <= j

FirstNotLess(y) ==
    LET S == {k \in 1..Len(dorder) : rob[dorder[k]].y >= y}
    IN  IF S = {} THEN Len(dorder) + 1
        ELSE CHOOSE k \in S : \A j \in S : k <= j

\* C20, as stated: robots_add on a free tile inserts the new robot in the
\* draw order immediately before the first entry whose y is strictly greater
\* than the new robot's y (so after every existing entry with equal y), or at
\* the end when no such entry exists.
AddAfterEqual ==
    [][\A x \in 0..(MapW - 1), y \in 0..(MapH - 1) :
         (AddOf(x, y) /\ last'.rc = EOK) =>
            \E n \in RobotIds \ Live :
               dorder' = InsertAt(dorder, FirstGreater(y), n)]_vars

\* C20, amended: robots_add on a free tile inserts the new robot in the draw
\* order immediately before the first entry whose y is not less than the new
\* robot's y (so ahead of the entries with equal y of a sorted draw order),
\* or at the end when no such entry exists.
AddBeforeEqual ==
    [][\A x \in 0..(MapW - 1), y \in 0..(MapH - 1) :
         (AddOf(x, y) /\ last'.rc = EOK) =>
            \E n \in RobotIds \ Live :
               dorder' = InsertAt(dorder, FirstNotLess(y), n)]_vars

\* robots_add has just put a third robot into the draw order: behind a robot
\* of a row above it, and ahead of the robot that stood on its row already.
AddedAheadOfEqual ==
    /\ last.op = "add" /\ last.rc = EOK
    /\ Len(dorder) = 3
    /\ dorder[2] = robots[3]
    /\ rob[dorder[1]].y < rob[dorder[2]].y
    /\ rob[dorder[2]].y = rob[dorder[3]].y

\* The transition is robots_remove(x, y).
RemoveOf(x, y) ==
    /\ last'.op = "remove"
    /\ World' = robots_remove(World, x, y)
    /\ last'.robot = robots_get(World, x, y)

\* seq without its entry at index k, the others in the order they had.
DropAt(seq, k) ==
    [j \in 1..(Len(seq) - 1) |-> IF j < k THEN seq[j] ELSE seq[j + 1]]

\* list is base with its one entry n taken out.
RemovedFrom(list, base, n) ==
    \E k \in 1..Len(base) :
       /\ base[k] = n
       /\ \A j \in 1..Len(base) : base[j] = n => j = k
       /\ list = DropAt(base, k)

\* C21: robots_remove(x,y) removes the robot at (x,y) from both the unordered
\* list and the draw order and leaves the relative order and the state of all
\* other robots unchanged; when no robot is at (x,y) it changes nothing.
RemoveEffect ==
    [][\A x \in 0..(MapW - 1), y \in 0..(MapH - 1) :
         RemoveOf(x, y) =>
            /\ map' = map
            /\ IF Occupied(x, y)
               THEN \E n \in Live :
                       /\ rob[n].x = x /\ rob[n].y = y
                       /\ RemovedFrom(robots', robots, n)
                       /\ RemovedFrom(dorder', dorder, n)
                       /\ \A r \in Live \ {n} : rob'[r] = rob[r]
               ELSE robots' = robots /\ dorder' = dorder /\ rob' = rob]_vars

\* robots_remove has just taken the second of three robots out of both
\* lists, and the two others are left.
RemovedMiddle ==
    /\ last.op = "remove" /\ last.robot = 2
    /\ robots = <<1, 3>>
    /\ Len(dorder) = 2

RECURSIVE HeadPositions(_, _, _)
HeadPositions(mod, i, pos) ==
    IF i > Len(mod) THEN {}
    ELSE {pos} \cup HeadPositions(mod, i + 1,
                                  pos + Len(prog_proc_save(mod, mod[i])))

\* The file is the save of the host's module but for the identifier of one
\* Call, which is the identifier of no procedure of the file.
DanglingCall ==
    LET saved == prog_module_save(prog)
    IN  /\ Len(file) = Len(saved)
        /\ \E p \in 1..Len(file) :
              /\ saved[p].k = "s" /\ p \notin HeadPositions(prog, 1, 2)
              /\ file[p].k = "s"
              /\ \A i \in 1..Len(prog) : prog[i].ident # file[p].s
              /\ \A q \in 1..Len(file) : q # p => file[q] = saved[q]

\* The transition is prog_module_load of the file.
FileLoadOf == last'.op = "file_load"

\* C23: loading a module in which a Call statement names an identifier that
\* belongs to no procedure of that module fails with a load error and
\* produces no module.
DanglingCallRefused ==
    [][(FileLoadOf /\ DanglingCall) =>
          /\ last'.rc = EIO
          /\ prog_module_load(file, 1).val = NULL
          /\ prog' = prog]_vars

\* A load has just failed on a file whose one damaged item is the identifier
\* of a Call, in a module whose undamaged save loads.
DanglingCallLoaded ==
    /\ last.op = "file_load" /\ last.rc = EIO
    /\ DanglingCall
    /\ prog_module_load(prog_module_save(prog), 1).rc = EOK

\* The file holds one robot: its four numbers, the number of entries of its
\* continuation stack, and an identifier and a number for each entry.
OneRobotFile ==
    /\ Len(file) >= 6 /\ \A p \in 1..6 : file[p].k = "u"
    /\ file[1].n = 1 /\ file[5].n < errt_limit
    /\ Len(file) = 6 + 2 * file[6].n
    /\ \A k \in 1..file[6].n :
          /\ file[5 + 2 * k].k = "s"
          /\ Len(file[5 + 2 * k].s) = prog_proc_id_len
          /\ file[6 + 2 * k].k = "u"

\* The k-th entry of the file names no procedure of the module, or a
\* statement index that is not less than the number of top-level statements
\* of the procedure it names.
BadEntry(k) ==
    \/ \A i \in 1..Len(prog) : prog[i].ident # file[5 + 2 * k].s
    \/ \E i \in 1..Len(prog) :
          /\ prog[i].ident = file[5 + 2 * k].s
          /\ file[6 + 2 * k].n >= Len(prog[i].body.stmts)

\* The transition is robots_load of the file.
RobotsLoadOf == last'.op = "robots_load"

\* C24: loading a continuation-stack entry fails with a decode error, pushing
\* no entry and aborting the robot load, when its procedure identifier is
\* not in the module or when its statement index is not less than the number
\* of top-level statements of the named procedure.
BadEntryRefused ==
    [][(RobotsLoadOf /\ OneRobotFile /\ \E k \in 1..file[6].n : BadEntry(k)) =>
          /\ last'.rc = EIO
          /\ robots' = robots /\ dorder' = dorder /\ rob' = rob]_vars


(***************************************************************************)
(* C25: when prog_module_load fails on a malformed file, at any point of   *)
(* it, every module, procedure, block and statement object that the load   *)
(* created has been released when the error is returned: the failed load   *)
(* leaves no object allocated.                                             *)
(***************************************************************************)
FailedLoadReleasesAll ==
    [][(FileLoadOf /\ last'.rc # EOK) =>
           prog_module_load(file, 1).leak = 0]_vars

(***************************************************************************)
(* C26: prog_module_gen_ident returns an identifier of exactly 8 uppercase *)
(* letters that differs from the identifier of every procedure already in  *)
(* the module: a candidate equal to an existing identifier is regenerated, *)
(* never returned.  The identifier is that of the procedure being learned. *)
(***************************************************************************)
GeneratedIdentFresh ==
    learn_proc # NoProc =>
        /\ learn_proc.ident \in [1..prog_proc_id_len -> Letters]
        /\ \A i \in 1..Len(prog) : prog[i].ident # learn_proc.ident

(***************************************************************************)
(* C27: robot_save followed by robot_load yields a robot with the same x,  *)
(* y, direction and the same error value (none, hit-wall, already-tag or   *)
(* no-tag) as the saved robot.  The robot is the one that the host saves   *)
(* and loads with the workspace.                                           *)
(***************************************************************************)
SavedThenLoaded ==
    last'.op = "load" /\ last'.rc = EOK /\ Len(robots) = 1

SaveLoadKeepsRobot ==
    [][SavedThenLoaded =>
           LET old == rob[robots_first(World)]
               new == rob'[list_first(robots')]
           IN  /\ new.x = old.x /\ new.y = old.y /\ new.dir = old.dir
               /\ new.error = old.error]_vars

(***************************************************************************)
(* C28: after any sequence of run_proc, step, reset and direct intrinsic   *)
(* invocations, every robot is Idle (no cursor, no error), Running (cursor *)
(* set, no error) or Stopped-on-error (error set and cursor set): an error *)
(* is never set while the cursor is absent.                                *)
(***************************************************************************)
ErrorNoCursor(r) == r.error # errt_none /\ r.cur_stmt = NoStmt

ErrorNeedsCursor == \A r \in Live : ~ErrorNoCursor(rob[r])

DirectVerbs ==
    {"move", "turn_left", "put_white", "put_grey", "put_black", "pick_up"}

\* C28 as the code has it: there is a fourth state, error set with no
\* cursor.  A robot enters it only by a direct intrinsic invocation on it
\* that fails while it has no cursor; run_proc, step and reset never put a
\* robot into it, and reset is the only way out of it.
ErrorNoCursorFromVerb ==
    [][\A r \in Live :
          /\ (ErrorNoCursor(rob'[r]) /\ ~ErrorNoCursor(rob[r])) =>
                 /\ last'.op \in DirectVerbs /\ last'.robot = r
                 /\ Idle(rob[r])
          /\ (ErrorNoCursor(rob[r]) /\ ~ErrorNoCursor(rob'[r])) =>
                 /\ last'.op = "reset" /\ last'.robot = r
                 /\ Idle(rob'[r])]_vars

\* A direct move into the wall has left a robot with an error and no
\* cursor.
VerbFailedNoCursor ==
    /\ last.op = "move"
    /\ last.robot \in Live
    /\ rob[last.robot].error = errt_hit_wall
    /\ rob[last.robot].cur_stmt = NoStmt

(***************************************************************************)
(* C29: robot_step, robot_run_proc and robot_reset on one robot leave      *)
(* every other robot's position, direction, error, cursor and continuation *)
(* stack unchanged.                                                        *)
(***************************************************************************)
EngineOps == {"step", "run_proc", "reset"}

OthersUntouched ==
    [][last'.op \in EngineOps =>
           \A o \in Live \ {last'.robot} :
               /\ rob'[o].x = rob[o].x /\ rob'[o].y = rob[o].y
               /\ rob'[o].dir = rob[o].dir
               /\ rob'[o].error = rob[o].error
               /\ rob'[o].cur_proc = rob[o].cur_proc
               /\ rob'[o].cur_stmt = rob[o].cur_stmt
               /\ rob'[o].rstack = rob[o].rstack]_vars

\* A robot has just been stepped while another one is inside a call, with
\* an entry on its continuation stack.
SteppedBesideBusy ==
    /\ last.op = "step" /\ last.rc = EOK
    /\ \E o \in Live \ {last.robot} :
          rob[o].cur_stmt # NoStmt /\ rob[o].rstack # rstack_create

(***************************************************************************)
(* C30: whenever the workspace is loaded, the program module is completely *)
(* loaded before any robot record and its continuation stack are loaded    *)
(* and resolved against it: in the calls of a load, prog_module_load comes *)
(* before robots_load.                                                     *)
(***************************************************************************)
ModuleLoadedFirst ==
    \A i \in 1..Len(loads) :
        loads[i] = "robots_load" =>
            \E j \in 1..(i - 1) : loads[j] = "prog_module_load"

(***************************************************************************)
(* C31: robots_move_robot with dy = 0 (a move to the east or to the west)  *)
(* leaves the draw order unchanged: the moved robot keeps its slot         *)
(* relative to every other robot.                                          *)
(***************************************************************************)
SidewaysKeepsOrder ==
    [][\A r \in Live :
          (VerbOf("move", r) /\ dir_get_off(rob[r].dir)[2] = 0) =>
              dorder' = dorder]_vars

(***************************************************************************)
(* C32: after any sequence of robots_add, robots_remove and                *)
(* robots_move_robot, the unordered robot list and the draw order contain  *)
(* exactly the same set of robots, each robot exactly once in each.        *)
(***************************************************************************)
Members(list) == {list[i] : i \in 1..Len(list)}

ListsHoldSameRobots ==
    /\ Members(robots) = Members(dorder)
    /\ Cardinality(Members(robots)) = Len(robots)
    /\ Cardinality(Members(dorder)) = Len(dorder)

\* A move has just re-linked a robot, and the two lists now hold the robots
\* in different orders.
MovedOutOfListOrder ==
    /\ last.op = "move"
    /\ Len(robots) = MaxMoved
    /\ dorder # robots

(***************************************************************************)
(* C33: after any sequence of robots_add, robots_remove, robot_move and    *)
(* robot_step, no two robots occupy the same tile, so that robots_get(x,   *)
(* y) identifies at most one robot.                                        *)
(***************************************************************************)
OneRobotPerTile ==
    \A a \in Live : \A b \in Live \ {a} :
        rob[a].x # rob[b].x \/ rob[a].y # rob[b].y

(***************************************************************************)
(* C34: whenever a robot is Idle (no cursor, no error) its continuation    *)
(* stack is empty, after any sequence of run_proc, step and reset starting *)
(* from a freshly added robot.                                             *)
(***************************************************************************)
IdleStackEmpty ==
    \A r \in Live : Idle(rob[r]) => rstack_is_empty(rob[r].rstack)

(***************************************************************************)
(* C35: for a Call that has a following sibling S in procedure P, if the   *)
(* callee (with everything it calls) finishes without error, the next      *)
(* cursor after the callee finishes is (P, S); this holds for every        *)
(* callee, including one whose body is empty.  The callee finishes in the  *)
(* step that executes the last statement of its body without error, or in  *)
(* the step of the Call itself when its body is empty; (P, S) is the       *)
(* continuation of the innermost Call that is still open.                  *)
(***************************************************************************)
\* The step of r executes a Call to a procedure with an empty body.
CallsEmpty(r) ==
    /\ StepsStmt(r, progst_call)
    /\ Len(prog[Deref(prog, rob[r].cur_stmt).proc].body.stmts) = 0

\* The step of r ends a callee's body: its last intrinsic, without error, or
\* a Call to an empty procedure.
CalleeFinishes(r) ==
    \/ /\ StepsStmt(r, progst_intrinsic)
       /\ rob'[r].error = errt_none
       /\ prog_block_next(prog, rob[r].cur_stmt) = NoStmt
    \/ CallsEmpty(r)

\* The continuation (P, S) of the innermost open Call when r's step begins:
\* that of the Call being stepped when it has a sibling, else the top entry.
OpenCall(r) ==
    IF CallsEmpty(r) /\ prog_block_next(prog, rob[r].cur_stmt) # NoStmt
    THEN [caller_proc |-> rob[r].cur_proc,
          caller_stmt |-> prog_block_next(prog, rob[r].cur_stmt)]
    ELSE rstack_last(rob[r].rstack)

HasOpenCall(r) ==
    \/ CallsEmpty(r) /\ prog_block_next(prog, rob[r].cur_stmt) # NoStmt
    \/ ~rstack_is_empty(rob[r].rstack)

ReturnsToSibling ==
    [][\A r \in Live :
          (CalleeFinishes(r) /\ HasOpenCall(r)) =>
              /\ rob'[r].cur_proc = OpenCall(r).caller_proc
              /\ rob'[r].cur_stmt = OpenCall(r).caller_stmt]_vars

(***************************************************************************)
(* C36: in every state reached by run_proc and step, each entry (proc,     *)
(* stmt) of a continuation stack has stmt in the top-level body of proc,   *)
(* so the walk of prog_proc_get_stmt_index from the first statement of     *)
(* proc's body meets stmt, and the index it returns names stmt again.      *)
(***************************************************************************)
\* stmt is met by walking proc's top-level body from its first statement.
InTopBody(mod, proc, stmt) ==
    \E i \in 1..Len(mod[proc].body.stmts) : StmtAt(proc, i) = stmt

EntryInTopBody(mod, entry) ==
    /\ InTopBody(mod, entry.caller_proc, entry.caller_stmt)
    /\ prog_proc_stmt_by_index(mod, entry.caller_proc,
           prog_proc_get_stmt_index(mod, entry.caller_proc,
                                    entry.caller_stmt)) = entry.caller_stmt

StackEntriesInTopBody ==
    \A r \in Live : \A k \in 1..Len(rob[r].rstack) :
        EntryInTopBody(prog, rob[r].rstack[k])

\* A robot stepped into a callee from a Call that has a following sibling.
SteppedIntoCallee ==
    /\ last.op = "step" /\ last.rc = EOK
    /\ \E r \in Live : Running(rob[r]) /\ ~rstack_is_empty(rob[r].rstack)

(***************************************************************************)
(* C37: rstack_save followed by rstack_load against the same module yields *)
(* a stack with the same number of entries, the same (procedure,           *)
(* statement) pair at each depth and the same top entry, so later pops     *)
(* return the entries in the same order as on the original stack.  The     *)
(* stack is the one of the robot that the host saves and loads with the    *)
(* workspace.                                                              *)
(***************************************************************************)
\* The entries in the order in which rstack_pop_caller returns them.
RECURSIVE PopOrder(_)
PopOrder(rstack) ==
    IF rstack_is_empty(rstack) THEN <<>>
    ELSE <<rstack_last(rstack)>> \o PopOrder(rstack_pop_caller(rstack))

SaveLoadKeepsStack ==
    [][(last'.op = "load" /\ last'.rc = EOK /\ Len(robots) = 1) =>
           LET old == rob[robots_first(World)].rstack
               new == rob'[list_first(robots')].rstack
           IN  /\ Len(new) = Len(old)
               /\ \A k \in 1..Len(old) : new[k] = old[k]
               /\ PopOrder(new) = PopOrder(old)]_vars

\* A stack of two entries has been saved and loaded.
DeepStackLoaded ==
    /\ last.op = "load" /\ last.rc = EOK /\ Len(robots) = 1
    /\ Len(rob[list_first(robots)].rstack) = 2

(***************************************************************************)
(* The work mode of the vocabulary editor: one robot on the corridor; the  *)
(* verb that calls a procedure starts it and steps the robot for as long   *)
(* as it is busy and has no error.  last.op tells where the handler is:    *)
(* "run_proc" and "step" inside its loop, "verb_call" when it has          *)
(* returned.  The modules are those whose call graph has no cycle.         *)
(***************************************************************************)
\* robot_clear_error is not part of robot.c: it clears the error, and the
\* cursor with it or not.
ClearErrorOutcomes(w, robot) ==
    {robot_reset(w, robot), [w EXCEPT !.rob[robot].error = errt_none]}

InLoop == last.op \in {"run_proc", "step"}

InitLoop ==
    /\ map \in Maps
    /\ prog \in {CallModule, CtlModule}
    /\ robots = <<>>
    /\ dorder = <<>>
    /\ rob = [id \in RobotIds |-> NoRobot]
    /\ last = [op |-> "init", robot |-> NULL, rc |-> EOK, first |-> FALSE]
    /\ twin = NoTwin
    /\ file = <<>>
    /\ learn_proc = NoProc
    /\ loads = <<>>

\* case verb_call, up to the loop.  The verb is given to a robot whose stack
\* is empty, so that the stack stays within MaxDepth entries.
WorkVerbCall(r, p) ==
    /\ ~InLoop /\ rstack_is_empty(rob[r].rstack)
    /\ \E w \in ClearErrorOutcomes(World, r) :
          LET res == robot_run_proc(prog, w, r, p)
          IN  SetWorld(res.w) /\ Did("run_proc", r, res.rc)

\* One turn of the loop: the return value of robot_step is dropped.
LoopStep(r) ==
    /\ InLoop /\ last.robot = r
    /\ robot_is_busy(World, r) /\ robot_error(World, r) = errt_none
    /\ RobotStep(r)

\* The loop condition fails and the handler returns.
LoopExit(r) ==
    /\ InLoop /\ last.robot = r
    /\ ~(robot_is_busy(World, r) /\ robot_error(World, r) = errt_none)
    /\ UNCHANGED <<map, robots, dorder, rob, prog>>
    /\ Did("verb_call", r, EOK)

NextLoop ==
    \/ \E t \in DOMAIN map.tile :
          Len(robots) = 0 /\ ~InLoop /\ RobotsAdd(t[1], t[2])
    \/ \E r \in Live, p \in 1..Len(prog) : WorkVerbCall(r, p)
    \/ \E r \in Live : LoopStep(r)
    \/ \E r \in Live : LoopExit(r)

\* The handler runs on the host's one thread: once in the loop, it takes the
\* next turn or leaves.
SpecLoop ==
    /\ InitLoop /\ [][NextLoop]_vars
    /\ WF_vars(\E r \in Live : LoopStep(r))
    /\ WF_vars(\E r \in Live : LoopExit(r))

(***************************************************************************)
(* C38: the host's run-to-completion loop (call robot_step while the robot *)
(* is busy and has no error) terminates for every procedure whose call     *)
(* graph is acyclic, including procedures that contain If, Repeat or       *)
(* Recurse statements: a handler that has entered the loop returns.        *)
(***************************************************************************)
HostLoopTerminates == InLoop ~> (last.op = "verb_call")

(***************************************************************************)
(* C39: saving and loading a Repeat statement preserves its repeat count,  *)
(* its has-start-condition and has-end-condition flags, both conditions    *)
(* (negate flag and type) and its body block.  The statement is one of a   *)
(* procedure's body in a module that the host saves and loads.             *)
(***************************************************************************)
\* The Repeat statements of the module: procedure and place in its body.
RepeatsOf(mod) ==
    {pi \in (1..Len(mod)) \X (1..MaxBody) :
        /\ pi[2] <= Len(mod[pi[1]].body.stmts)
        /\ mod[pi[1]].body.stmts[pi[2]].stype = progst_repeat}

RepeatSaveLoad ==
    [][(last'.op = "module_load" /\ last'.rc = EOK) =>
           \A pi \in RepeatsOf(prog) :
               LET old == prog[pi[1]].body.stmts[pi[2]]
                   new == prog'[pi[1]].body.stmts[pi[2]]
               IN  /\ new.stype = progst_repeat
                   /\ new.repcnt = old.repcnt
                   /\ new.have_scond = old.have_scond
                   /\ new.have_econd = old.have_econd
                   /\ new.scond = old.scond
                   /\ new.econd = old.econd
                   /\ new.body = old.body]_vars
====
